---- MODULE Spec2Model ----
(***************************************************************************)
(* A model of tensorflow/python/ops/math_ops.py: the tensor contraction    *)
(* tensordot, reduced to transpose + reshape + matmul.                     *)
(*                                                                         *)
(* A tensor is a record [shape, vals, static]: shape is the run-time shape *)
(* (a sequence of dimension sizes), vals the elements in row-major order   *)
(* and static what the graph knows of the shape when the graph is built:   *)
(* "full" (fully defined), "rank" (the rank, not every size) or "none"     *)
(* (unknown rank).                                                         *)
(***************************************************************************)
EXTENDS Integers, Sequences, FiniteSets, TLC

\* Bounds of the model.
MaxRank == 3      \* operands have rank 0..MaxRank
MaxDim == 2       \* every dimension has size 1..MaxDim
MaxAxes == 2      \* an explicit axis list has at most MaxAxes entries
NegAxes == 1      \* valid axis lists use the negative positions -NegAxes..-1
MaxRows == 3      \* a malformed axes argument has up to MaxRows rows

VARIABLES a, b, axes, pc, outcome, sat_value, sat_dtype, sat_out,
          div_x, div_y, div_out, red_op, red_x, red_axis, red_alias,
          red_keep, red_out,
          mm_a, mm_b, mm_flags, mm_out,
          rs_shape, rs_axes, rs_out,
          acc_inputs, acc_out, acc_val, acc_local, acc_var, acc_lock, acc_ret

\* The arguments and the result of tensordot.
tensordot_vars == <<a, b, axes, outcome>>

\* The arguments and the result of saturate_cast.
saturate_vars == <<sat_value, sat_dtype, sat_out>>

\* The operands and the result of a true division.
truediv_vars == <<div_x, div_y, div_out>>

\* The operation called on a tensor to reduce, its arguments and its result.
reduction_vars == <<red_op, red_x, red_axis, red_alias, red_keep, red_out>>

\* The operands, the flags and the result of matmul.
matmul_vars == <<mm_a, mm_b, mm_flags, mm_out>>

\* The arguments and the result of reduced_shape.
shape_vars == <<rs_shape, rs_axes, rs_out>>

\* The inputs of accumulate_n, the graph it builds and the run of that graph.
accumulate_vars == <<acc_inputs, acc_out, acc_val, acc_local, acc_var, acc_lock, acc_ret>>

vars ==
  <<a, b, axes, pc, outcome, sat_value, sat_dtype, sat_out, div_x, div_y,
    div_out, red_op, red_x, red_axis, red_alias, red_keep, red_out,
    mm_a, mm_b, mm_flags, mm_out,
    rs_shape, rs_axes, rs_out,
    acc_inputs, acc_out, acc_val, acc_local, acc_var, acc_lock, acc_ret>>

\* The value of a variable that a specification does not use.
Unused == "unused"

----------------------------------------------------------------------------
(* Sequences and row-major indexing.                                       *)

RECURSIVE Prod(_)
\* np.prod of a list of integers; the empty product is 1.
Prod(s) == IF s = <<>> THEN 1 ELSE Head(s) * Prod(Tail(s))

\* The set of the entries of a sequence.
Elems(s) == {s[k] : k \in 1..Len(s)}

\* xrange(n): the list [0, ..., n-1].
XRange(n) == [k \in 1..n |-> k - 1]

\* Range(start, limit): the 1-D tensor [start, ..., limit-1], empty when
\* limit <= start.
RangeVals(start, limit) ==
  IF limit <= start THEN <<>> ELSE [k \in 1..(limit - start) |-> start + k - 1]

\* All sequences over S of length 0..n.
SeqsUpTo(S, n) == UNION {[1..k -> S] : k \in 0..n}

\* The multi-index (0-based) of the flat offset f in a row-major array.
Unravel(f, shape) ==
  [k \in 1..Len(shape) |->
     (f \div Prod(SubSeq(shape, k + 1, Len(shape)))) % shape[k]]

RECURSIVE RavelFrom(_, _, _, _)
RavelFrom(idx, shape, k, acc) ==
  IF k > Len(shape) THEN acc
  ELSE RavelFrom(idx, shape, k + 1, acc * shape[k] + idx[k])

\* The flat offset of a multi-index in a row-major array.
Ravel(idx, shape) == RavelFrom(idx, shape, 1, 0)

RECURSIVE SumTo(_, _)
\* Sum of F[0] + ... + F[n-1] for a function F on 0..n-1.
SumTo(F, n) == IF n = 0 THEN 0 ELSE F[n - 1] + SumTo(F, n - 1)

----------------------------------------------------------------------------
(* The primitives of the graph engine that tensordot builds on.            *)

\* A tensor value without its static information.
Value(shape, vals) == [shape |-> shape, vals |-> vals]

NoValue == Value(<<>>, <<>>)

\* perm is a permutation of 0..r-1.
IsPerm(perm, r) == Len(perm) = r /\ Elems(perm) = 0..(r - 1)

\* Shape inference of Transpose on a constant perm: perm has one entry per
\* dimension of the input and no entry names a dimension past the last.
TransposeShapeOK(r, perm) ==
  Len(perm) = r /\ \A k \in 1..Len(perm) : perm[k] < r

\* array_ops.transpose(t, perm) for a permutation perm: dimension k of the
\* result is dimension perm[k] of t.
Transpose(t, perm) ==
  LET r == Len(t.shape)
      newshape == [k \in 1..r |-> t.shape[perm[k] + 1]]
      src(f) ==
        LET j == Unravel(f - 1, newshape)
            i == [d \in 1..r |-> j[CHOOSE k \in 1..r : perm[k] = d - 1]]
        IN Ravel(i, t.shape) + 1
  IN Value(newshape, [f \in 1..Len(t.vals) |-> t.vals[src(f)]])

\* Shape inference of Reshape on known shapes: the element counts agree.
ReshapeShapeOK(shape, newshape) == Prod(newshape) = Prod(shape)

\* array_ops.reshape(t, newshape) where the element counts agree: the
\* row-major element order is kept.
Reshape(t, newshape) == Value(newshape, t.vals)

\* gen_math_ops._mat_mul of two matrices whose inner dimensions agree.
MatMulValue(x, y) ==
  LET m == x.shape[1]
      n == x.shape[2]
      p == y.shape[2]
      entry(f) ==
        LET i == (f - 1) \div p
            j == (f - 1) % p
        IN SumTo([k \in 0..(n - 1) |->
                    x.vals[i * n + k + 1] * y.vals[k * p + j + 1]], n)
  IN Value(<<m, p>>, [f \in 1..(m * p) |-> entry(f)])

\* array_ops.setdiff1d(x, y): the entries of x that are not in y, in the
\* order of x.
SetDiff1d(x, y) == SelectSeq(x, LAMBDA v : v \notin Elems(y))

\* array_ops.gather(params, indices) is defined when every index is a
\* position of params.
GatherOK(params, indices) ==
  \A k \in 1..Len(indices) : indices[k] \in 0..(Len(params) - 1)

Gather(params, indices) ==
  [k \in 1..Len(indices) |-> params[indices[k] + 1]]

----------------------------------------------------------------------------
(* tensordot and its two helpers.                                          *)
(*                                                                         *)
(* An axis specification handed from _tensordot_axes to                    *)
(* _tensordot_reshape is [islist, v]: a Python list (islist) or a 1-D      *)
(* int32 tensor, holding the integers v.                                   *)
(* The errors a call can raise while the graph is built:                   *)
(*   InvalidAxisCount   ValueError, 'axes' must be at least 1              *)
(*   InvalidAxesLength  ValueError, 'axes' has not length 2, or its two    *)
(*                      lists differ in length                             *)
(*   IndexError         a list index out of range                          *)
(*   ShapeMismatch      ValueError of the engine's shape inference         *)
(* A failure that only shows when the graph runs is "deferred".            *)

AxisSpec(islist, v) == [islist |-> islist, v |-> v]

\* The Python exception class of a build-time error.
ExcClass(e) ==
  IF e = "IndexError" THEN "IndexError"
  ELSE IF e \in {"TypeMismatch", "UnsupportedType", "TypeError"} THEN "TypeError"
  ELSE "ValueError"

\* shape_a[i] of Python: a negative i counts from the end.
PyIndexOK(s, i) == i \in (0 - Len(s))..(Len(s) - 1)

PyIndex(s, i) == IF i >= 0 THEN s[i + 1] ELSE s[Len(s) + i + 1]

\* [i if i >= 0 else i + len(shape_a) for i in axes]
NormalizeAxes(ax, r) ==
  [k \in 1..Len(ax) |-> IF ax[k] >= 0 THEN ax[k] ELSE ax[k] + r]

\* cast(axes >= 0, int32) * axes + cast(axes < 0, int32) * (axes + rank_a)
NormalizeAxesDynamic(ax, r) ==
  [k \in 1..Len(ax) |->
     (IF ax[k] >= 0 THEN 1 ELSE 0) * ax[k]
     + (IF ax[k] < 0 THEN 1 ELSE 0) * (ax[k] + r)]

\* A faulty variant of the planner: the contracted axes stay among the free
\* ones.
FreeAxesAll(r, naxes) == XRange(r)

\* [i for i in xrange(len(shape_a)) if i not in axes]
FreeAxes(r, naxes) == SelectSeq(XRange(r), LAMBDA i : i \notin Elems(naxes))

RECURSIVE Deduplicated(_)
\* The first occurrence of every entry of a sequence.
Deduplicated(q) ==
  IF q = <<>> THEN <<>>
  ELSE LET rest == Deduplicated(SubSeq(q, 1, Len(q) - 1))
       IN IF q[Len(q)] \in Elems(rest) THEN rest
          ELSE Append(rest, q[Len(q)])

\* A faulty variant of the planner: an axis named twice is permuted once.
PermOfDeduplicated(naxes, free, flipped) ==
  IF flipped THEN Deduplicated(naxes) \o free
  ELSE free \o Deduplicated(naxes)

\* A faulty variant of the planner: the right operand permuted like the left.
PermOfUnflipped(naxes, free, flipped) == free \o naxes

\* list(axes) + free if flipped else free + list(axes)
PermOf(naxes, free, flipped) ==
  IF flipped THEN naxes \o free ELSE free \o naxes

\* [prod_axes, prod_free] if flipped else [prod_free, prod_axes]
NewShapeOf(prod_free, prod_axes, flipped) ==
  IF flipped THEN <<prod_axes, prod_free>> ELSE <<prod_free, prod_axes>>

\* What _tensordot_reshape hands back (or how it fails).
Reshaped(raised, deferred, mat, mat_static, free_dims, free_is_list, naxes, free, perm, new_shape, nodes) ==
  [raised |-> raised, deferred |-> deferred, mat |-> mat,
   mat_static |-> mat_static, free_dims |-> free_dims,
   free_is_list |-> free_is_list, axes |-> naxes, free |-> free,
   perm |-> perm, new_shape |-> new_shape, nodes |-> nodes]

\* The branch of _tensordot_reshape for a fully defined shape and a list of
\* axes: everything is computed as plain integers while the graph is built.
tensordot_reshape_static(t, ax, flipped) ==
  LET shape_a == t.shape
      r == Len(shape_a)
      naxes == NormalizeAxes(ax, r)
      free == FreeAxes(r, naxes)
      free_dims == [k \in 1..Len(free) |-> shape_a[free[k] + 1]]
      prod_free == Prod(free_dims)
  IN IF \E k \in 1..Len(naxes) : ~PyIndexOK(shape_a, naxes[k])
     THEN Reshaped("IndexError", FALSE, NoValue, TRUE, free_dims, TRUE,
                   naxes, free, <<>>, <<>>, <<>>)
     ELSE
       LET prod_axes == Prod([k \in 1..Len(naxes) |-> PyIndex(shape_a, naxes[k])])
           perm == PermOf(naxes, free, flipped)
           new_shape == NewShapeOf(prod_free, prod_axes, flipped)
       IN IF ~TransposeShapeOK(r, perm)
          THEN Reshaped("ShapeMismatch", FALSE, NoValue, TRUE, free_dims,
                        TRUE, naxes, free, perm, new_shape, <<>>)
          ELSE IF ~ReshapeShapeOK(shape_a, new_shape)
          THEN Reshaped("ShapeMismatch", FALSE, NoValue, TRUE, free_dims,
                        TRUE, naxes, free, perm, new_shape, <<"Transpose">>)
          ELSE IF ~IsPerm(perm, r)
          THEN Reshaped("", TRUE, NoValue, TRUE, free_dims, TRUE,
                        naxes, free, perm, new_shape,
                        <<"Transpose", "Reshape">>)
          ELSE Reshaped("", FALSE,
                        Reshape(Transpose(Value(shape_a, t.vals), perm), new_shape),
                        TRUE, free_dims, TRUE, naxes, free, perm, new_shape,
                        <<"Transpose", "Reshape">>)

\* The nodes the other branch of _tensordot_reshape appends.
DynamicNodes ==
  <<"Shape", "Rank", "GreaterEqual", "Cast", "Mul", "Less", "Cast", "Add",
    "Mul", "Add", "Range", "ListDiff", "Gather", "Gather", "Prod", "Prod",
    "Concat", "Concat", "Pack", "Transpose", "Reshape">>

\* The other branch of _tensordot_reshape: the same quantities computed by
\* graph nodes from the run-time shape and rank; nothing can fail before the
\* graph runs.
tensordot_reshape_dynamic(t, ax, flipped) ==
  LET shape_a == t.shape
      rank_a == Len(shape_a)
      naxes == NormalizeAxesDynamic(ax, rank_a)
      free == SetDiff1d(RangeVals(0, rank_a), naxes)
      free_dims == Gather(shape_a, free)
      perm == IF flipped THEN naxes \o free ELSE free \o naxes
  IN IF ~GatherOK(shape_a, naxes) \/ ~IsPerm(perm, rank_a)
     THEN Reshaped("", TRUE, NoValue, FALSE, free_dims, FALSE,
                   naxes, free, perm, <<>>, DynamicNodes)
     ELSE
       LET axes_dims == Gather(shape_a, naxes)
           prod_free_dims == Prod(free_dims)
           prod_axes_dims == Prod(axes_dims)
           new_shape == IF flipped THEN <<prod_axes_dims, prod_free_dims>>
                        ELSE <<prod_free_dims, prod_axes_dims>>
       IN Reshaped("", FALSE,
                   Reshape(Transpose(Value(shape_a, t.vals), perm), new_shape),
                   FALSE, free_dims, FALSE, naxes, free, perm, new_shape,
                   DynamicNodes)

\* a.get_shape().is_fully_defined(): the rank and every size are known while
\* the graph is built; the shape of a scalar is known as soon as its rank is.
is_fully_defined(t) ==
  t.static = "full" \/ (t.static = "rank" /\ t.shape = <<>>)

\* _tensordot_reshape(a, axes, flipped)
tensordot_reshape(t, ax, flipped) ==
  IF is_fully_defined(t) /\ ax.islist
  THEN tensordot_reshape_static(t, ax.v, flipped)
  ELSE tensordot_reshape_dynamic(t, ax.v, flipped)

\* The axes argument of tensordot: an integer [kind "int", n], a Python list
\* of lists [kind "list", rows], or an int32 tensor of shape [2, k]
\* [kind "tensor", rows].
IntAxes(n) == [kind |-> "int", n |-> n, rows |-> <<>>]

ListAxes(rows) == [kind |-> "list", n |-> 0, rows |-> rows]

TensorAxes(rows) == [kind |-> "tensor", n |-> 0, rows |-> rows]

AxesResult(raised, a_axes, b_axes, nodes) ==
  [raised |-> raised, a_axes |-> a_axes, b_axes |-> b_axes, nodes |-> nodes]

\* The b axes of the integer form when the rank of a is only known when the
\* graph runs: array_ops.range(rank, dtype=int32).
RuntimeRankBAxes(rank, n) == RangeVals(0, rank)

\* A faulty variant of the test: 0 passes.
AxisCountNegative(n) == n < 0

\* if axes < 1: raise ValueError("'axes' must be at least 1.")
AxisCountInvalid(n) == n < 1

\* A faulty variant of the test: the two lists are not compared.
AxesLengthNotTwo(rows) == Len(rows) # 2

\* len(axes) != 2, or len(a_axes) != len(b_axes)
AxesLengthInvalid(rows) ==
  IF Len(rows) # 2 THEN TRUE ELSE Len(rows[1]) # Len(rows[2])

\* _tensordot_axes(a, axes)
tensordot_axes(t, ax) ==
  IF ax.kind = "int"
  THEN IF AxisCountInvalid(ax.n)
       THEN AxesResult("InvalidAxisCount", AxisSpec(TRUE, <<>>),
                       AxisSpec(TRUE, <<>>), <<>>)
       ELSE IF t.static # "none"
       THEN AxesResult("", AxisSpec(FALSE, RangeVals(Len(t.shape) - ax.n, Len(t.shape))),
                       AxisSpec(FALSE, RangeVals(0, ax.n)),
                       <<"Range", "Range">>)
       ELSE LET rank == Len(t.shape)
            IN AxesResult("", AxisSpec(FALSE, RangeVals(rank - ax.n, rank)),
                          AxisSpec(FALSE, RuntimeRankBAxes(rank, ax.n)),
                          <<"Rank", "Sub", "Range", "Range">>)
  ELSE IF ax.kind = "list"
  THEN IF AxesLengthInvalid(ax.rows)
       THEN AxesResult("InvalidAxesLength", AxisSpec(TRUE, <<>>),
                       AxisSpec(TRUE, <<>>), <<>>)
       ELSE AxesResult("", AxisSpec(TRUE, ax.rows[1]),
                       AxisSpec(TRUE, ax.rows[2]), <<>>)
  ELSE AxesResult("", AxisSpec(FALSE, ax.rows[1]), AxisSpec(FALSE, ax.rows[2]),
                  <<"StridedSlice", "StridedSlice">>)

\* What a call of tensordot comes to: raised names the error raised while
\* the graph is built ("" when the call returns a tensor); deferred says
\* that running the returned tensor fails; value is the value the returned
\* tensor evaluates to; static_shape says that the result was reshaped with
\* a plain-integer shape; a_axes and b_axes are what _tensordot_axes
\* returned, a_free_dims and b_free_dims what _tensordot_reshape returned;
\* nodes are the operations appended to the graph.
Outcome(raised, deferred, value, static_shape, a_axes, b_axes, a_free_dims, b_free_dims, nodes) ==
  [raised |-> raised, deferred |-> deferred, value |-> value,
   static_shape |-> static_shape, a_axes |-> a_axes, b_axes |-> b_axes,
   a_free_dims |-> a_free_dims, b_free_dims |-> b_free_dims, nodes |-> nodes]

\* A faulty variant of the final reshape: B's free dimensions first.
ResultShapeSwapped(a_free_dims, b_free_dims) == b_free_dims \o a_free_dims

\* The shape the final reshape is given: A's free dimensions, then B's.
ResultShape(a_free_dims, b_free_dims) == a_free_dims \o b_free_dims

\* The type of ops.convert_to_tensor(free_dims) without dtype (lines
\* 2327-2328): int32 for a tensor and for a list of integers, float32 for
\* the empty list.
FreeDimsDType(free_dims, is_list) ==
  IF is_list /\ free_dims = <<>> THEN "float32" ELSE "int32"

\* tensordot(a, b, axes)
tensordot(ta, tb, ax) ==
  LET ar == tensordot_axes(ta, ax)
      Raise(e, nodes) ==
        Outcome(e, FALSE, NoValue, FALSE, ar.a_axes, ar.b_axes, <<>>, <<>>,
                nodes)
  IN IF ar.raised # ""
     THEN Raise(ar.raised, <<>>)
     ELSE
     LET ra == tensordot_reshape(ta, ar.a_axes, FALSE)
     IN IF ra.raised # ""
        THEN Raise(ra.raised, ar.nodes)
        ELSE
        LET rb == tensordot_reshape(tb, ar.b_axes, TRUE)
            built == ar.nodes \o ra.nodes
        IN IF rb.raised # ""
           THEN Raise(rb.raised, built)
           ELSE IF ra.mat_static /\ rb.mat_static
                   /\ ra.new_shape[2] # rb.new_shape[1]
           THEN Raise("ShapeMismatch", built \o rb.nodes)
           ELSE
           IF ra.free_is_list # rb.free_is_list
              /\ FreeDimsDType(ra.free_dims, ra.free_is_list)
                   # FreeDimsDType(rb.free_dims, rb.free_is_list)
           THEN Raise("TypeError", built \o rb.nodes \o <<"MatMul">>)
           ELSE
           LET static == ra.free_is_list /\ rb.free_is_list
               shape == ResultShape(ra.free_dims, rb.free_dims)
               nodes == built \o rb.nodes \o
                        (IF static THEN <<"MatMul", "Reshape">>
                         ELSE <<"MatMul", "Concat", "Reshape">>)
               Return(deferred, value) ==
                 Outcome("", deferred, value, static, ar.a_axes, ar.b_axes,
                         ra.free_dims, rb.free_dims, nodes)
           IN IF ra.deferred \/ rb.deferred
              THEN Return(TRUE, NoValue)
              ELSE IF ra.mat.shape[2] # rb.mat.shape[1]
              THEN Return(TRUE, NoValue)
              ELSE
              LET ab_matmul == MatMulValue(ra.mat, rb.mat)
              IN IF Prod(shape) # Len(ab_matmul.vals)
                 THEN Return(TRUE, NoValue)
                 ELSE Return(FALSE, Reshape(ab_matmul, shape))

----------------------------------------------------------------------------
(* The inputs of a call and the state machine.                             *)

\* The shapes of the operands.
Shapes == SeqsUpTo(1..MaxDim, MaxRank)

\* The values 1, 2, 3, ... (from off) in row-major order.
Iota(n, off) == [i \in 1..n |-> off + i - 1]

\* A single 1 at flat offset p, zeros elsewhere.
OneHot(n, p) == [i \in 1..n |-> IF i - 1 = p THEN 1 ELSE 0]

Tensor(shape, vals, static) ==
  [shape |-> shape, vals |-> vals, static |-> static]

Statics == {"full", "rank", "none"}

\* The operand whose elements are 1, 2, 3, ... (from off).
IotaOperands(off) ==
  {Tensor(s, Iota(Prod(s), off), st) : s \in Shapes, st \in Statics}

\* Left operands: 1, 2, 3, ... under every static knowledge, and every unit
\* tensor of a fully defined shape.
LeftOperands ==
  IotaOperands(1)
  \cup UNION {{Tensor(s, OneHot(Prod(s), p), "full") : p \in 0..(Prod(s) - 1)}
              : s \in Shapes}

\* Right operands: 7, 8, 9, ... with a fully defined shape or none.
RightOperands == {t \in IotaOperands(7) : t.static # "rank"}

\* Right operands of the rank of t, fully defined exactly when t is.
Companions(t) ==
  {u \in RightOperands :
     /\ Len(u.shape) = Len(t.shape)
     /\ (u.static = "full") <=> (t.static = "full")}

\* An axis list is valid for rank r: after normalization its entries are
\* positions 0..r-1, each named once.
ValidAxes(ax, r) ==
  /\ \A k \in 1..Len(ax) : ax[k] \in (0 - r)..(r - 1)
  /\ \A k, l \in 1..Len(ax) :
       k # l => NormalizeAxes(ax, r)[k] # NormalizeAxes(ax, r)[l]

\* The valid axis lists of the model for rank r.
ValidAxisLists(r) ==
  {ax \in SeqsUpTo((0 - NegAxes)..(r - 1), MaxAxes) : ValidAxes(ax, r)}

\* Axis lists with entries on both sides of the valid range of rank r, and
\* below -2r, where a normalized entry is no Python index any more.
WideAxisLists(r) == SeqsUpTo((0 - (2 * r + 1))..r, MaxAxes)

\* The lists [], [0], [0, 1], ...
SimpleAxisLists == {XRange(k) : k \in 0..MaxAxes}

\* The integer form, and the list form with valid axes on both operands.
WellFormedAxes(ra, rb) ==
  {IntAxes(n) : n \in (0 - 1)..MaxRank}
  \cup {ListAxes(<<p[1], p[2]>>) :
          p \in {q \in ValidAxisLists(ra) \X ValidAxisLists(rb) :
                   Len(q[1]) = Len(q[2])}}

\* A list that has not two rows, or two rows of different lengths.
MalformedAxes ==
  {ListAxes(rows) : rows \in
     {rs \in SeqsUpTo(SimpleAxisLists, MaxRows) :
        Len(rs) # 2 \/ Len(rs[1]) # Len(rs[2])}}

\* Two rows of one length, one of them with entries of the wide range.
WideAxes(ra, rb) ==
  {ListAxes(<<p[1], p[2]>>) :
     p \in {q \in (WideAxisLists(ra) \X SimpleAxisLists)
                  \cup (SimpleAxisLists \X WideAxisLists(rb)) :
              Len(q[1]) = Len(q[2])}}

\* The tensor form with valid axes on both operands.
TensorFormAxes(ra, rb) ==
  {TensorAxes(<<p[1], p[2]>>) :
     p \in {q \in ValidAxisLists(ra) \X ValidAxisLists(rb) :
              Len(q[1]) = Len(q[2])}}

NoOutcome ==
  Outcome("", FALSE, NoValue, FALSE, AxisSpec(TRUE, <<>>),
          AxisSpec(TRUE, <<>>), <<>>, <<>>, <<>>)

\* The calls of the model: every pair of operands with well-formed axes, and
\* the operands 1, 2, 3, ... with a companion under the other axes.
Init ==
  /\ \/ /\ a \in LeftOperands
        /\ b \in RightOperands
        /\ axes \in WellFormedAxes(Len(a.shape), Len(b.shape))
     \/ /\ a \in IotaOperands(1)
        /\ b \in Companions(a)
        /\ axes \in MalformedAxes \cup WideAxes(Len(a.shape), Len(b.shape))
                   \cup TensorFormAxes(Len(a.shape), Len(b.shape))
  /\ pc = "call"
  /\ outcome = NoOutcome
  /\ sat_value = Unused /\ sat_dtype = Unused /\ sat_out = Unused
  /\ div_x = Unused /\ div_y = Unused /\ div_out = Unused
  /\ red_op = Unused /\ red_x = Unused /\ red_axis = Unused
  /\ red_alias = Unused /\ red_keep = Unused /\ red_out = Unused
  /\ mm_a = Unused /\ mm_b = Unused /\ mm_flags = Unused /\ mm_out = Unused
  /\ rs_shape = Unused /\ rs_axes = Unused /\ rs_out = Unused
  /\ acc_inputs = Unused /\ acc_out = Unused /\ acc_val = Unused /\ acc_local = Unused /\ acc_var = Unused /\ acc_lock = Unused /\ acc_ret = Unused

\* The call tensordot(a, b, axes).
Tensordot ==
  /\ pc = "call"
  /\ outcome' = tensordot(a, b, axes)
  /\ pc' = "done"
  /\ UNCHANGED <<a, b, axes>>
  /\ UNCHANGED saturate_vars
  /\ UNCHANGED truediv_vars
  /\ UNCHANGED reduction_vars
  /\ UNCHANGED matmul_vars
  /\ UNCHANGED shape_vars
  /\ UNCHANGED accumulate_vars

Next == Tensordot

Spec == Init /\ [][Next]_vars

----------------------------------------------------------------------------
(* What the properties refer to: the mathematical contraction, defined on  *)
(* indices, and the cases of a call.                                       *)

Done == pc = "done"

\* The call returned a tensor that evaluates to a value.
Returned == Done /\ outcome.raised = "" /\ ~outcome.deferred

BothFull == is_fully_defined(a) /\ is_fully_defined(b)

\* axes is a list of two axis lists of one length.
ExplicitPair ==
  /\ axes.kind = "list"
  /\ Len(axes.rows) = 2
  /\ Len(axes.rows[1]) = Len(axes.rows[2])

\* The position an axis entry names in a tensor of rank r.
AxisPos(i, r) == IF i < 0 THEN r + i ELSE i

Positions(ax, r) == [k \in 1..Len(ax) |-> AxisPos(ax[k], r)]

\* No position is named twice.
Unique(ps) == \A k, l \in 1..Len(ps) : k # l => ps[k] # ps[l]

\* Every entry lies in -r..r-1.
InRange(ax, r) == \A k \in 1..Len(ax) : ax[k] >= 0 - r /\ ax[k] <= r - 1

RECURSIVE Ascending(_)
\* The members of a finite set of integers in increasing order.
Ascending(S) ==
  IF S = {} THEN <<>>
  ELSE LET m == CHOOSE x \in S : \A y \in S : x <= y
       IN <<m>> \o Ascending(S \ {m})

\* The free positions of a tensor of rank r contracted over positions ps.
FreePositions(r, ps) == Ascending((0..(r - 1)) \ Elems(ps))

\* The sizes of the dimensions of t at the positions ps.
DimsAt(t, ps) == [k \in 1..Len(ps) |-> t.shape[ps[k] + 1]]

\* The contraction of ta and tb over the paired positions pa[i], pb[i]:
\* indexed by the free indices of ta, then those of tb, each entry the sum
\* over the contracted indices of the products of the elements.
Contraction(ta, tb, pa, pb) ==
  LET fa == FreePositions(Len(ta.shape), pa)
      fb == FreePositions(Len(tb.shape), pb)
      oshape == DimsAt(ta, fa) \o DimsAt(tb, fb)
      csizes == DimsAt(ta, pa)
      count == Prod(csizes)
      IndexOf(t, ps, fs, c, o, base) ==
        [d \in 1..Len(t.shape) |->
           IF \E k \in 1..Len(ps) : ps[k] = d - 1
           THEN c[CHOOSE k \in 1..Len(ps) : ps[k] = d - 1]
           ELSE o[base + (CHOOSE k \in 1..Len(fs) : fs[k] = d - 1)]]
      term(o, n) ==
        LET c == Unravel(n, csizes)
        IN ta.vals[Ravel(IndexOf(ta, pa, fa, c, o, 0), ta.shape) + 1]
           * tb.vals[Ravel(IndexOf(tb, pb, fb, c, o, Len(fa)), tb.shape) + 1]
      entry(f) ==
        LET o == Unravel(f - 1, oshape)
        IN SumTo([n \in 0..(count - 1) |-> term(o, n)], count)
  IN Value(oshape, [f \in 1..Prod(oshape) |-> entry(f)])

\* The case of C1: fully known shapes, explicit lists of one length whose
\* entries are valid and unique and pair dimensions of equal size.
ContractionCase ==
  /\ BothFull
  /\ ExplicitPair
  /\ InRange(axes.rows[1], Len(a.shape))
  /\ InRange(axes.rows[2], Len(b.shape))
  /\ Unique(Positions(axes.rows[1], Len(a.shape)))
  /\ Unique(Positions(axes.rows[2], Len(b.shape)))
  /\ DimsAt(a, Positions(axes.rows[1], Len(a.shape)))
       = DimsAt(b, Positions(axes.rows[2], Len(b.shape)))

\* C1: on fully known shapes and valid explicit axis lists that pair
\* dimensions of equal size, tensordot returns the contraction: indexed by
\* a's free indices, then b's, each entry the sum over the contracted
\* indices of a[...] * b[...].
C1_Contraction ==
  (Done /\ ContractionCase) =>
    /\ Returned
    /\ outcome.value
         = Contraction(a, b, Positions(axes.rows[1], Len(a.shape)),
                       Positions(axes.rows[2], Len(b.shape)))

\* C1 witness: c[j,k,l,m] = sum_i a[i,j,k] * b[l,m,i] on rank-3 operands
\* with a contracted dimension of size 2 and an entry that is not 0.
C1_Witness ==
  /\ Done /\ ContractionCase /\ Returned
  /\ Len(a.shape) = 3 /\ Len(b.shape) = 3
  /\ axes.rows = <<(<<0>>), (<<2>>)>>
  /\ a.shape = <<2, 1, 2>> /\ b.shape = <<1, 2, 2>>
  /\ outcome.value.shape = <<1, 2, 1, 2>>
  /\ \E f \in 1..Len(outcome.value.vals) : outcome.value.vals[f] > 1

\* The product of two matrices, entry by entry.
MatrixProduct(x, y) ==
  LET m == x.shape[1]
      n == x.shape[2]
      p == y.shape[2]
  IN Value(<<m, p>>,
           [f \in 1..(m * p) |->
              SumTo([k \in 0..(n - 1) |->
                       x.vals[((f - 1) \div p) * n + k + 1]
                       * y.vals[k * p + ((f - 1) % p) + 1]], n)])

\* The case of C2: matrices [m,n] and [n,p] and axes = 1.
MatrixCase ==
  /\ Len(a.shape) = 2 /\ Len(b.shape) = 2
  /\ a.shape[2] = b.shape[1]
  /\ axes = IntAxes(1)

\* C2 (as claimed): for every pair of rank-2 operands [m,n] and [n,p],
\* tensordot(A, B, 1) is the matrix product A*B of shape [m,p].
C2_MatrixProduct ==
  (Done /\ MatrixCase) =>
    (Returned /\ outcome.value = MatrixProduct(a, b))

\* The explicit form of the integer axes n on a left operand of rank r.
ExplicitForm(n, r) == ListAxes(<<RangeVals(r - n, r), RangeVals(0, n)>>)

\* The case of C3: an integer N with 1 <= N <= min(rank(a), rank(b)).
IntegerCase ==
  /\ axes.kind = "int"
  /\ axes.n >= 1 /\ axes.n <= Len(a.shape) /\ axes.n <= Len(b.shape)

\* C3 (as claimed): tensordot(a, b, N) yields the value and shape of
\* tensordot(a, b, [[rank(a)-N, ..., rank(a)-1], [0, ..., N-1]]).
C3_IntegerFormAgrees ==
  (Done /\ IntegerCase) =>
    LET e == tensordot(a, b, ExplicitForm(axes.n, Len(a.shape)))
    IN (e.raised = "" /\ ~e.deferred) =>
         (Returned /\ outcome.value = e.value)

\* The case of C4: fully known shapes and valid unique contraction axes, in
\* the list form or in the integer form.
ValidCase ==
  /\ BothFull
  /\ \/ ExplicitPair
     \/ IntegerCase
  /\ InRange(outcome.a_axes.v, Len(a.shape))
  /\ InRange(outcome.b_axes.v, Len(b.shape))
  /\ Unique(Positions(outcome.a_axes.v, Len(a.shape)))
  /\ Unique(Positions(outcome.b_axes.v, Len(b.shape)))

\* C4: on fully known shapes and valid unique axes the shape of the result
\* is the free dimensions the planner returned for the left operand, then
\* those it returned for the right operand, which are the sizes of the
\* dimensions not contracted; so
\* rank(result) = rank(a) + rank(b) - 2 * len(a_axes).
C4_ResultShape ==
  (Returned /\ ValidCase) =>
    /\ outcome.value.shape = outcome.a_free_dims \o outcome.b_free_dims
    /\ outcome.value.shape
         = DimsAt(a, FreePositions(Len(a.shape),
                                   Positions(outcome.a_axes.v, Len(a.shape))))
           \o DimsAt(b, FreePositions(Len(b.shape),
                                      Positions(outcome.b_axes.v, Len(b.shape))))
    /\ Len(outcome.value.shape)
         = Len(a.shape) + Len(b.shape) - 2 * Len(outcome.a_axes.v)

\* C4 witness: a rank-3 and a rank-2 operand contracted over one axis, with
\* different free dimensions left and right.
C4_Witness ==
  /\ Returned /\ ValidCase /\ ExplicitPair
  /\ Len(a.shape) = 3 /\ Len(b.shape) = 2
  /\ Len(axes.rows[1]) = 1
  /\ outcome.a_free_dims = <<1, 2>>
  /\ outcome.b_free_dims = <<1>>
  /\ outcome.value.shape = <<1, 2, 1>>

\* C5 (as claimed): an integer N >= 1 is normalized to the axes
\* [rank_A-N, ..., rank_A-1] for A and [0, ..., N-1] for B, whether the rank
\* of A is known when the graph is built or only when it runs.
C5_IntegerAxes ==
  (Done /\ axes.kind = "int" /\ axes.n >= 1 /\ axes.n <= Len(a.shape)) =>
    /\ outcome.a_axes.v = RangeVals(Len(a.shape) - axes.n, Len(a.shape))
    /\ outcome.b_axes.v = RangeVals(0, axes.n)

\* The case of C6: a list that has not two entries, or whose two lists
\* differ in length.
BadLengthCase ==
  /\ axes.kind = "list"
  /\ \/ Len(axes.rows) # 2
     \/ Len(axes.rows[1]) # Len(axes.rows[2])

\* C6: an explicit axes argument that has not exactly two entries, or whose
\* two lists differ in length, fails with the invalid-axes-length error, a
\* ValueError, while the graph is built; no tensor is returned and no node
\* is appended.
C6_InvalidAxesLength ==
  (Done /\ BadLengthCase) =>
    /\ outcome.raised = "InvalidAxesLength"
    /\ ExcClass(outcome.raised) = "ValueError"
    /\ outcome.value = NoValue
    /\ outcome.nodes = <<>>

\* C6 witness: the lists [0] and [0, 1] on operands that would admit both.
C6_Witness ==
  /\ Done /\ BadLengthCase
  /\ axes.rows = <<(<<0>>), (<<0, 1>>)>>
  /\ Len(a.shape) = 2 /\ Len(b.shape) = 2 /\ BothFull
  /\ outcome.raised = "InvalidAxesLength"

\* C7: an integer axes argument below 1 fails with the invalid-axis-count
\* error, a ValueError, while the graph is built, whatever the shapes of
\* the operands and whatever is known of them.
C7_InvalidAxisCount ==
  (Done /\ axes.kind = "int" /\ axes.n < 1) =>
    /\ outcome.raised = "InvalidAxisCount"
    /\ ExcClass(outcome.raised) = "ValueError"
    /\ outcome.value = NoValue
    /\ outcome.nodes = <<>>

\* C7 witness: axes = 0 on a left operand of unknown rank.
C7_Witness ==
  /\ Done /\ axes = IntAxes(0)
  /\ a.static = "none" /\ Len(a.shape) = 2
  /\ outcome.raised = "InvalidAxisCount"

\* The case of C8: fully known shapes, valid explicit lists, and a pair of
\* contracted axes of different sizes.
UnequalPairCase ==
  /\ BothFull
  /\ ExplicitPair
  /\ InRange(axes.rows[1], Len(a.shape))
  /\ InRange(axes.rows[2], Len(b.shape))
  /\ Unique(Positions(axes.rows[1], Len(a.shape)))
  /\ Unique(Positions(axes.rows[2], Len(b.shape)))
  /\ DimsAt(a, Positions(axes.rows[1], Len(a.shape)))
       # DimsAt(b, Positions(axes.rows[2], Len(b.shape)))

\* C8 (as claimed): on fully known shapes and explicit lists, tensordot
\* fails with a shape mismatch while the graph is built whenever some paired
\* axes differ in size, also when the products of the contracted sizes agree.
C8_PairedSizes ==
  (Done /\ UnequalPairCase) => outcome.raised = "ShapeMismatch"

\* The case of C9: two lists of one length, and the list of an operand of
\* fully known shape names an axis twice after normalization.
RepeatedAxisCase ==
  /\ ExplicitPair
  /\ \/ is_fully_defined(a) /\ ~Unique(Positions(axes.rows[1], Len(a.shape)))
     \/ is_fully_defined(b) /\ ~Unique(Positions(axes.rows[2], Len(b.shape)))

\* C9: an axis list that names an axis twice after normalization is
\* rejected while the graph is built, when shape and axes are statically
\* known: an error is raised, no tensor is returned and no product is built.
C9_RepeatedAxisRejected ==
  (Done /\ RepeatedAxisCase) =>
    /\ outcome.raised # ""
    /\ outcome.value = NoValue
    /\ \A k \in 1..Len(outcome.nodes) : outcome.nodes[k] # "MatMul"

\* C9 witness: [1, -1] on a matrix whose second dimension has size 1, where
\* the sizes alone would admit the reshape.
C9_Witness ==
  /\ Done /\ RepeatedAxisCase
  /\ axes.rows[1] = <<1, -1>>
  /\ a.shape = <<2, 1>> /\ a.static = "full"
  /\ outcome.raised = "ShapeMismatch"

\* The case of C10: two lists of one length, and the list of an operand of
\* fully known shape has an entry outside -r..r-1 (for the right operand:
\* the left operand's list being valid).
OutOfRangeCase ==
  /\ ExplicitPair
  /\ \/ is_fully_defined(a) /\ ~InRange(axes.rows[1], Len(a.shape))
     \/ /\ BothFull
        /\ InRange(axes.rows[1], Len(a.shape))
        /\ Unique(Positions(axes.rows[1], Len(a.shape)))
        /\ ~InRange(axes.rows[2], Len(b.shape))

\* C10 (as claimed): on an operand of fully known shape of rank r, every
\* axis value outside -r..r-1 makes tensordot raise an IndexError while the
\* graph is built.
C10_IndexError ==
  (Done /\ OutOfRangeCase) => outcome.raised = "IndexError"

\* The case of C11: two rows of one length, as a list or as a tensor, each
\* valid for its operand.
ValidRowsCase ==
  /\ axes.kind \in {"list", "tensor"}
  /\ Len(axes.rows) = 2
  /\ Len(axes.rows[1]) = Len(axes.rows[2])
  /\ InRange(axes.rows[1], Len(a.shape))
  /\ InRange(axes.rows[2], Len(b.shape))
  /\ Unique(Positions(axes.rows[1], Len(a.shape)))
  /\ Unique(Positions(axes.rows[2], Len(b.shape)))

\* The two branches of _tensordot_reshape plan the same reshape of t.
PlannersAgree(t, ax, flipped) ==
  LET s == tensordot_reshape_static(t, ax, flipped)
      d == tensordot_reshape_dynamic(t, ax, flipped)
  IN /\ s.raised = "" /\ ~s.deferred /\ ~d.deferred
     /\ s.axes = d.axes
     /\ s.free = d.free
     /\ s.perm = d.perm
     /\ s.new_shape = d.new_shape
     /\ s.free_dims = d.free_dims
     /\ s.mat = d.mat

\* The same axes in the other form: a tensor for a list, a list for a tensor.
OtherForm(ax) ==
  IF ax.kind = "list" THEN TensorAxes(ax.rows) ELSE ListAxes(ax.rows)

\* C11: for every operand shape, every valid axis list and both values of
\* flipped, the static and the dynamic planner give the same normalized
\* axes, free axes, permutation, 2-D target, free dimensions and reshaped
\* operand; and tensordot returns the same value whether the axes are a list
\* or a tensor of the same integers.
C11_PlannersEquivalent ==
  (Done /\ ValidRowsCase) =>
    /\ \A flipped \in BOOLEAN :
         /\ is_fully_defined(a) => PlannersAgree(a, axes.rows[1], flipped)
         /\ is_fully_defined(b) => PlannersAgree(b, axes.rows[2], flipped)
    /\ LET e == tensordot(a, b, OtherForm(axes))
       IN /\ Returned <=> (e.raised = "" /\ ~e.deferred)
          /\ outcome.value = e.value

\* The part of C11 that holds: the two planners agree, and tensordot returns
\* the same value for a list and for a tensor of axes unless the call with
\* the list fails on the types of the free dimensions (one operand alone of
\* fully defined shape, with no free axis).
C11_ExceptFreeDimsType ==
  (Done /\ tensordot(a, b, ListAxes(axes.rows)).raised = "TypeError")
    \/ C11_PlannersEquivalent

\* C11 witness: the axes [[-1, 0], [1, 0]] as a tensor on operands of rank 3
\* with fully defined shapes, contracted to a matrix of two rows and columns.
C11_Witness ==
  /\ Done /\ ValidRowsCase /\ Returned /\ BothFull
  /\ axes = TensorAxes(<<(<<-1, 0>>), (<<1, 0>>)>>)
  /\ a.shape = <<2, 2, 2>> /\ b.shape = <<2, 2, 2>>
  /\ outcome.value.shape = <<2, 2>>
  /\ ~outcome.static_shape

----------------------------------------------------------------------------
(* Data types.  An integer is held as its 64-bit two's-complement pattern: *)
(* four limbs of 16 bits, the least significant first.  Every integer type *)
(* of the library lies within the signed 64-bit range, so a pattern read   *)
(* as a signed 64-bit number is the integer itself.                        *)

LimbBits == 16
Limbs == 4
LimbBase == 2^LimbBits
LimbMax == LimbBase - 1

DType(name, kind, signed, bits) ==
  [name |-> name, kind |-> kind, signed |-> signed, bits |-> bits]

uint8 == DType("uint8", "int", FALSE, 8)
int8 == DType("int8", "int", TRUE, 8)
uint16 == DType("uint16", "int", FALSE, 16)
int16 == DType("int16", "int", TRUE, 16)
int32 == DType("int32", "int", TRUE, 32)
int64 == DType("int64", "int", TRUE, 64)

IntegerDTypes == {uint8, int8, uint16, int16, int32, int64}

float16 == DType("float16", "float", TRUE, 16)
float32 == DType("float32", "float", TRUE, 32)
float64 == DType("float64", "float", TRUE, 64)
complex64 == DType("complex64", "complex", TRUE, 64)
complex128 == DType("complex128", "complex", TRUE, 128)
bfloat16 == DType("bfloat16", "float", TRUE, 16)
bool == DType("bool", "bool", FALSE, 8)
string == DType("string", "string", FALSE, 0)

\* The types of the library that the model draws operands from.
DTypes ==
  IntegerDTypes
  \cup {float16, float32, float64, complex64, complex128, bfloat16, bool,
        string}

\* Python's None where a type is expected.
None == DType("None", "none", FALSE, 0)

\* The pattern of an integer small enough to be written down.
FromInt(n) ==
  [i \in 1..Limbs |->
     IF i = 1 THEN n % LimbBase
     ELSE IF i = 2 THEN (n \div LimbBase) % LimbBase
     ELSE IF n < 0 THEN LimbMax ELSE 0]

\* The pattern with the k low bits set: 2^k - 1.
Ones(k) ==
  [i \in 1..Limbs |->
     IF LimbBits * i <= k THEN LimbMax
     ELSE IF LimbBits * (i - 1) < k THEN 2^(k - LimbBits * (i - 1)) - 1
     ELSE 0]

\* The bitwise complement: -1 - x.
Complement(x) == [i \in 1..Limbs |-> LimbMax - x[i]]

\* x + 1 and x - 1 on 64 bits.
Inc(x) ==
  [i \in 1..Limbs |->
     IF \A j \in 1..(i - 1) : x[j] = LimbMax THEN (x[i] + 1) % LimbBase
     ELSE x[i]]

Dec(x) ==
  [i \in 1..Limbs |->
     IF \A j \in 1..(i - 1) : x[j] = 0 THEN (x[i] + LimbMax) % LimbBase
     ELSE x[i]]

\* The most significant limb read with its sign.
TopLimb(x) ==
  IF x[Limbs] >= LimbBase \div 2 THEN x[Limbs] - LimbBase ELSE x[Limbs]

RECURSIVE LessFrom(_, _, _)
\* The limbs i, i-1, .., 1 of x are less than those of y.
LessFrom(x, y, i) ==
  IF i = 0 THEN FALSE
  ELSE IF x[i] # y[i] THEN x[i] < y[i]
  ELSE LessFrom(x, y, i - 1)

\* x < y as integers.
Less(x, y) ==
  IF TopLimb(x) # TopLimb(y) THEN TopLimb(x) < TopLimb(y)
  ELSE LessFrom(x, y, Limbs - 1)

\* DType.min and DType.max of an integer type.
DMin(d) == IF d.signed THEN Complement(Ones(d.bits - 1)) ELSE FromInt(0)

DMax(d) == IF d.signed THEN Ones(d.bits - 1) ELSE Ones(d.bits)

\* v is a value of type d.
Representable(v, d) == ~Less(v, DMin(d)) /\ ~Less(DMax(d), v)

----------------------------------------------------------------------------
(* cast and saturate_cast, on one element: the library applies them to     *)
(* every element of a tensor alike.  A value is a record [dtype, v].       *)

Scalar(dtype, v) == [dtype |-> dtype, v |-> v]

\* A node added to the graph: the operation, the type of its tensor input,
\* its constant inputs and the type of its output.
Node(op, T, consts, out) == [op |-> op, T |-> T, consts |-> consts, out |-> out]

\* The kernels of Maximum and Minimum on integers.
Maximum(x, y) == IF Less(x, y) THEN y ELSE x

Minimum(x, y) == IF Less(y, x) THEN y ELSE x

\* An integer that every floating and complex type holds exactly.
SmallInteger(x) == ~Less(x, FromInt(-256)) /\ ~Less(FromInt(256), x)

\* The kernel of Cast between integer types: the low bits of the pattern,
\* read as a number of the target type.
IntegerCastValue(x, dtype) ==
  LET kept == Ones(dtype.bits)
      low == [i \in 1..Limbs |-> x[i] % (kept[i] + 1)]
      top == (dtype.bits - 1) \div LimbBits + 1
      negative == dtype.signed
                  /\ (low[top] \div 2^((dtype.bits - 1) % LimbBits)) % 2 = 1
  IN IF negative THEN [i \in 1..Limbs |-> low[i] + (LimbMax - kept[i])]
     ELSE low

\* The kernel of Cast: to an integer type as above; to a floating or complex
\* type the number itself when the type holds it exactly, and the model goes
\* no further.
CastValue(x, dtype) ==
  IF dtype.kind = "int" THEN IntegerCastValue(x, dtype)
  ELSE IF dtype.kind \in {"float", "complex"} /\ SmallInteger(x) THEN x
  ELSE "not modelled"

\* ops.convert_to_tensor(n, dtype=d) of a Python integer: a constant of type
\* d, or an error when d cannot hold n.
convert_to_tensor(n, d) == [ok |-> Representable(n, d), t |-> Scalar(d, n)]

\* What a call leaves behind: the exception raised ("" for none), the tensor
\* returned and the nodes added to the graph, in order.
CastResult(raised, value, nodes) ==
  [raised |-> raised, value |-> value, nodes |-> nodes]

\* sparse_tensor.SparseTensor(indices, values, dense_shape): a new object.
\* Objects are told apart by obj, the number of constructions that led to
\* them, 0 for an argument of the call.  values is a tensor, held as the
\* tensors of this component are: by its type and one element.
SparseTensor(indices, values, dense_shape, obj) ==
  [indices |-> indices, values |-> values, dense_shape |-> dense_shape,
   obj |-> obj]

\* isinstance(x, sparse_tensor.SparseTensor)
IsSparseTensor(x) == "values" \in DOMAIN x

\* x.dtype of a Tensor or a SparseTensor (the type of its values).
DTypeOf(x) == IF IsSparseTensor(x) THEN x.values.dtype ELSE x.dtype

\* cast that adds a Cast node even when the input has the target type.
castAlways(x, dtype) ==
  CastResult("", Scalar(dtype, CastValue(x.v, dtype)),
             <<Node("Cast", x.dtype, <<>>, dtype)>>)

\* The branch of cast for a Tensor (lines 683-692), which is also the call
\* cast(x.values, base_type) of the other branch: x itself when it has the
\* type already, the output of one Cast node otherwise.
cast_tensor(x, dtype) ==
  IF x.dtype = dtype THEN CastResult("", x, <<>>)
  ELSE CastResult("", Scalar(dtype, CastValue(x.v, dtype)),
                  <<Node("Cast", x.dtype, <<>>, dtype)>>)

\* cast(x, dtype): for a SparseTensor the values are cast and a new
\* SparseTensor of the same indices and dense_shape is returned, whatever
\* the type of the values was.
cast(x, dtype) ==
  IF IsSparseTensor(x)
  THEN LET values_cast == cast_tensor(x.values, dtype)
       IN CastResult(values_cast.raised,
                     SparseTensor(x.indices, values_cast.value, x.dense_shape,
                                  x.obj + 1),
                     values_cast.nodes)
  ELSE cast_tensor(x, dtype)

\* A faulty variant of the test: the value is never clamped from below.
NeedsLowerClampNever(src, dtype) == FALSE

\* A faulty variant of the test: the value is always clamped from below.
NeedsLowerClampAlways(src, dtype) == TRUE

\* value.dtype.min < dtype.min
NeedsLowerClamp(src, dtype) == Less(DMin(src), DMin(dtype))

\* A faulty variant of the test: the value is never clamped from above.
NeedsUpperClampNever(src, dtype) == FALSE

\* value.dtype.max > dtype.max
NeedsUpperClamp(src, dtype) == Less(DMax(dtype), DMax(src))

\* A faulty variant of saturate_cast: the upper clamp is built first.
saturate_castUpperFirst(value, dtype) ==
  LET src == value.dtype
      upper == NeedsUpperClamp(src, dtype)
      max_c == convert_to_tensor(DMax(dtype), src)
      v1 == IF upper THEN Scalar(src, Minimum(value.v, max_c.t.v)) ELSE value
      n1 == IF upper THEN <<Node("Minimum", src, <<max_c.t>>, src)>> ELSE <<>>
      lower == NeedsLowerClamp(src, dtype)
      min_c == convert_to_tensor(DMin(dtype), src)
      v2 == IF lower THEN Scalar(src, Maximum(v1.v, min_c.t.v)) ELSE v1
      n2 == IF lower THEN n1 \o <<Node("Maximum", src, <<min_c.t>>, src)>>
            ELSE n1
      c == cast(v2, dtype)
  IN CastResult(c.raised, c.value, n2 \o c.nodes)

\* saturate_cast(value, dtype).  value is converted with
\* ops.convert_to_tensor first (line 713), which has no conversion of a
\* SparseTensor and raises TypeError.
saturate_cast(value, dtype) ==
  IF IsSparseTensor(value) THEN CastResult("TypeError", value, <<>>) ELSE
  LET src == value.dtype
      lower == NeedsLowerClamp(src, dtype)
      min_c == convert_to_tensor(DMin(dtype), src)
      v1 == IF lower THEN Scalar(src, Maximum(value.v, min_c.t.v)) ELSE value
      n1 == IF lower THEN <<Node("Maximum", src, <<min_c.t>>, src)>> ELSE <<>>
      upper == NeedsUpperClamp(src, dtype)
      max_c == convert_to_tensor(DMax(dtype), src)
      v2 == IF upper THEN Scalar(src, Minimum(v1.v, max_c.t.v)) ELSE v1
      n2 == IF upper THEN n1 \o <<Node("Minimum", src, <<max_c.t>>, src)>>
            ELSE n1
      c == cast(v2, dtype)
  IN IF lower /\ ~min_c.ok THEN CastResult("ValueError", value, <<>>)
     ELSE IF upper /\ ~max_c.ok THEN CastResult("ValueError", v1, n1)
     ELSE CastResult(c.raised, c.value, n2 \o c.nodes)

\* The integers of interest: the ends of every type, their neighbours, and
\* the values 300 and -5.
Landmarks ==
  UNION {{DMin(d), Inc(DMin(d)), Dec(DMin(d)), DMax(d), Inc(DMax(d)),
          Dec(DMax(d))} : d \in IntegerDTypes}
  \cup {FromInt(n) : n \in {-5, -1, 0, 1, 100, 200, 300, 40000, 70000}}

\* The values of type d among them.
ValuesOf(d) == {Scalar(d, v) : v \in {w \in Landmarks : Representable(w, d)}}

SaturateInit ==
  /\ sat_dtype \in IntegerDTypes
  /\ \E src \in IntegerDTypes : sat_value \in ValuesOf(src)
  /\ sat_out = Unused
  /\ pc = "call"
  /\ a = Unused /\ b = Unused /\ axes = Unused /\ outcome = Unused
  /\ div_x = Unused /\ div_y = Unused /\ div_out = Unused
  /\ red_op = Unused /\ red_x = Unused /\ red_axis = Unused
  /\ red_alias = Unused /\ red_keep = Unused /\ red_out = Unused
  /\ mm_a = Unused /\ mm_b = Unused /\ mm_flags = Unused /\ mm_out = Unused
  /\ rs_shape = Unused /\ rs_axes = Unused /\ rs_out = Unused
  /\ acc_inputs = Unused /\ acc_out = Unused /\ acc_val = Unused /\ acc_local = Unused /\ acc_var = Unused /\ acc_lock = Unused /\ acc_ret = Unused

\* The sparse tensors among the inputs of cast: one stored element at index
\* [0] of a vector of dense_shape [2].
SparseValuesOf(d) ==
  {SparseTensor(<<(<<0>>)>>, v, <<2>>, 0) : v \in ValuesOf(d)}

\* The arguments of cast: a Tensor or a SparseTensor, and the target type.
CastInit ==
  /\ sat_dtype \in IntegerDTypes
  /\ \E src \in IntegerDTypes :
       sat_value \in ValuesOf(src) \cup SparseValuesOf(src)
  /\ sat_out = Unused
  /\ pc = "call"
  /\ a = Unused /\ b = Unused /\ axes = Unused /\ outcome = Unused
  /\ div_x = Unused /\ div_y = Unused /\ div_out = Unused
  /\ red_op = Unused /\ red_x = Unused /\ red_axis = Unused
  /\ red_alias = Unused /\ red_keep = Unused /\ red_out = Unused
  /\ mm_a = Unused /\ mm_b = Unused /\ mm_flags = Unused /\ mm_out = Unused
  /\ rs_shape = Unused /\ rs_axes = Unused /\ rs_out = Unused
  /\ acc_inputs = Unused /\ acc_out = Unused /\ acc_val = Unused /\ acc_local = Unused /\ acc_var = Unused /\ acc_lock = Unused /\ acc_ret = Unused

\* The call saturate_cast(sat_value, sat_dtype).
SaturateCast ==
  /\ pc = "call"
  /\ sat_out' = saturate_cast(sat_value, sat_dtype)
  /\ pc' = "done"
  /\ UNCHANGED <<sat_value, sat_dtype>>
  /\ UNCHANGED tensordot_vars
  /\ UNCHANGED truediv_vars
  /\ UNCHANGED reduction_vars
  /\ UNCHANGED matmul_vars
  /\ UNCHANGED shape_vars
  /\ UNCHANGED accumulate_vars

SaturateNext == SaturateCast

SaturateSpec == SaturateInit /\ [][SaturateNext]_vars

\* The call cast(sat_value, sat_dtype).
Cast ==
  /\ pc = "call"
  /\ sat_out' = cast(sat_value, sat_dtype)
  /\ pc' = "cast"
  /\ UNCHANGED <<sat_value, sat_dtype>>
  /\ UNCHANGED <<tensordot_vars, truediv_vars, reduction_vars, matmul_vars>>
  /\ UNCHANGED shape_vars
  /\ UNCHANGED accumulate_vars

\* The call cast(y, sat_dtype) on the tensor y that cast(sat_value,
\* sat_dtype) returned.
CastAgain ==
  /\ pc = "cast"
  /\ sat_out' = [first |-> sat_out, second |-> cast(sat_out.value, sat_dtype)]
  /\ pc' = "cast_twice"
  /\ UNCHANGED <<sat_value, sat_dtype>>
  /\ UNCHANGED <<tensordot_vars, truediv_vars, reduction_vars, matmul_vars>>
  /\ UNCHANGED shape_vars
  /\ UNCHANGED accumulate_vars

CastNext == Cast \/ CastAgain \/ SaturateCast

\* cast, cast applied to its own result, and saturate_cast on the same
\* inputs.
CastSpec == CastInit /\ [][CastNext]_vars

\* min(max(v, dtype.min), dtype.max) as integers.
Clamped(v, dtype) ==
  LET raised == IF Less(v, DMin(dtype)) THEN DMin(dtype) ELSE v
  IN IF Less(DMax(dtype), raised) THEN DMax(dtype) ELSE raised

\* C12: for integer source and target types and every value v of the source
\* type, saturate_cast returns min(max(v, target.min), target.max) in the
\* target type: a value in range is unchanged and none wraps around.
C12_Saturates ==
  Done =>
    /\ sat_out.raised = ""
    /\ sat_out.value.dtype = sat_dtype
    /\ sat_out.value.v = Clamped(sat_value.v, sat_dtype)
    /\ Representable(sat_out.value.v, sat_dtype)
    /\ Representable(sat_value.v, sat_dtype) => sat_out.value.v = sat_value.v

\* C12 witness: 300 of type int16 saturates to 255 of type uint8, where the
\* plain cast wraps to 44.
C12_Witness ==
  /\ Done
  /\ sat_value = Scalar(int16, FromInt(300))
  /\ sat_dtype = uint8
  /\ sat_out.value = Scalar(uint8, FromInt(255))
  /\ CastValue(sat_value.v, uint8) = FromInt(44)

\* C12 witness at the other end: -5 of type int64 saturates to 0 of type
\* uint16.
C12_WitnessLow ==
  /\ Done
  /\ sat_value = Scalar(int64, FromInt(-5))
  /\ sat_dtype = uint16
  /\ sat_out.value = Scalar(uint16, FromInt(0))

\* The nodes of a call that clamps from below, from above and casts, as the
\* types of the call require.
LowerClampNodes(src, dtype) ==
  IF Less(DMin(src), DMin(dtype))
  THEN <<Node("Maximum", src, <<Scalar(src, DMin(dtype))>>, src)>>
  ELSE <<>>

UpperClampNodes(src, dtype) ==
  IF Less(DMax(dtype), DMax(src))
  THEN <<Node("Minimum", src, <<Scalar(src, DMax(dtype))>>, src)>>
  ELSE <<>>

CastNodes(src, dtype) ==
  IF src = dtype THEN <<>> ELSE <<Node("Cast", src, <<>>, dtype)>>

\* C13: saturate_cast adds its nodes in a fixed order: the lower clamp,
\* present exactly when target.min > source.min, then the upper clamp,
\* present exactly when target.max < source.max, then the cast (which adds
\* a node when the types differ); a clamp takes a value of the source type
\* and its bound as a constant of the source type, and nothing follows the
\* cast.
C13_ClampsBeforeCast ==
  Done =>
    LET src == sat_value.dtype
        nodes == sat_out.nodes
    IN /\ nodes = LowerClampNodes(src, sat_dtype)
                  \o UpperClampNodes(src, sat_dtype)
                  \o CastNodes(src, sat_dtype)
       /\ \A i \in 1..Len(nodes) :
            /\ nodes[i].op = "Cast" => i = Len(nodes)
            /\ nodes[i].op \in {"Maximum", "Minimum"} =>
                 /\ nodes[i].T = src
                 /\ nodes[i].consts[1].dtype = src
                 /\ Representable(nodes[i].consts[1].v, src)
       /\ sat_out.value.dtype = sat_dtype

\* C13 witness: int32 to int8 adds Maximum, Minimum and Cast, in this order.
C13_Witness ==
  /\ Done
  /\ sat_value.dtype = int32
  /\ sat_dtype = int8
  /\ Len(sat_out.nodes) = 3
  /\ sat_out.nodes[1].op = "Maximum" /\ sat_out.nodes[1].consts[1].v = FromInt(-128)
  /\ sat_out.nodes[2].op = "Minimum" /\ sat_out.nodes[2].consts[1].v = FromInt(127)
  /\ sat_out.nodes[3].op = "Cast"

----------------------------------------------------------------------------
(* True division: _truediv_python3 (tf.truediv and x / y on tensors) and   *)
(* _sparse_dense_truediv (sp / y).  The operands are tensors already.      *)

\* A faulty variant of the table: int32 is promoted to float32.
TRUEDIV_TABLE_Narrow ==
  (uint8 :> float32) @@ (int8 :> float32) @@ (uint16 :> float32)
  @@ (int16 :> float32) @@ (int32 :> float32) @@ (int64 :> float64)
  @@ (float16 :> None) @@ (float32 :> None) @@ (float64 :> None)
  @@ (complex64 :> None) @@ (complex128 :> None)

\* A faulty variant of the table: bool has an entry.
TRUEDIV_TABLE_WithBool ==
  (uint8 :> float32) @@ (int8 :> float32) @@ (uint16 :> float32)
  @@ (int16 :> float32) @@ (int32 :> float64) @@ (int64 :> float64)
  @@ (float16 :> None) @@ (float32 :> None) @@ (float64 :> None)
  @@ (complex64 :> None) @@ (complex128 :> None) @@ (bool :> None)

\* _TRUEDIV_TABLE
TRUEDIV_TABLE ==
  (uint8 :> float32) @@ (int8 :> float32) @@ (uint16 :> float32)
  @@ (int16 :> float32) @@ (int32 :> float64) @@ (int64 :> float64)
  @@ (float16 :> None) @@ (float32 :> None) @@ (float64 :> None)
  @@ (complex64 :> None) @@ (complex128 :> None)

\* What a division leaves behind: the exception raised ("" for none), the
\* two tensors handed to the division primitive, the type of the quotient
\* and the nodes added to the graph, in order.
DivResult(raised, x, y, dtype, nodes) ==
  [raised |-> raised, x |-> x, y |-> y, dtype |-> dtype, nodes |-> nodes]

\* if dtype is not None: both operands are cast; then the division
\* primitive named by op is added.
CastAndDivide(op, x, y) ==
  LET dtype == TRUEDIV_TABLE[x.dtype]
      cx == IF dtype # None THEN cast(x, dtype) ELSE CastResult("", x, <<>>)
      cy == IF dtype # None THEN cast(y, dtype) ELSE CastResult("", y, <<>>)
      T == cx.value.dtype
  IN DivResult("", cx.value, cy.value, T,
               cx.nodes \o cy.nodes \o <<Node(op, T, <<>>, T)>>)

\* A faulty variant of the division: the table is read before the types are
\* compared.
truediv_python3LookupFirst(x, y) ==
  IF x.dtype \notin DOMAIN TRUEDIV_TABLE
  THEN DivResult("UnsupportedType", x, y, None, <<>>)
  ELSE IF x.dtype # y.dtype THEN DivResult("TypeMismatch", x, y, None, <<>>)
  ELSE CastAndDivide("RealDiv", x, y)

truediv_python3(x, y) ==
  IF x.dtype # y.dtype THEN DivResult("TypeMismatch", x, y, None, <<>>)
  ELSE IF x.dtype \notin DOMAIN TRUEDIV_TABLE
  THEN DivResult("UnsupportedType", x, y, None, <<>>)
  ELSE CastAndDivide("RealDiv", x, y)

\* ops.convert_to_tensor(t, dtype=d) on a tensor t: t itself when it has the
\* type d, a ValueError when it has another type.
convert_tensor_as(t, d) == [ok |-> t.dtype = d, t |-> t]

\* truediv(x, y)
truediv(x, y) == truediv_python3(x, y)

sparse_dense_truediv(sp_values, y) ==
  IF sp_values.dtype # y.dtype
  THEN DivResult("TypeMismatch", sp_values, y, None, <<>>)
  ELSE IF sp_values.dtype \notin DOMAIN TRUEDIV_TABLE
  THEN DivResult("UnsupportedType", sp_values, y, None, <<>>)
  ELSE CastAndDivide("SparseDenseCwiseDiv", sp_values, y)

\* sp_x / y, the operator of a sparse tensor (binary_op_wrapper_sparse with
\* _sparse_dense_truediv): y is converted to the type of the values of sp_x
\* first.
binary_op_wrapper_sparse(sp_x, y) ==
  LET cy == convert_tensor_as(y, sp_x.dtype)
  IN IF ~cy.ok THEN DivResult("ValueError", sp_x, y, None, <<>>)
     ELSE sparse_dense_truediv(sp_x, cy.t)

\* An operand of every type; the dividend holds 6 and the divisor 3.
Operands(v) == {Scalar(d, FromInt(v)) : d \in DTypes}

TruedivInit ==
  /\ div_x \in Operands(6)
  /\ div_y \in Operands(3)
  /\ div_out = Unused
  /\ pc = "call"
  /\ a = Unused /\ b = Unused /\ axes = Unused /\ outcome = Unused
  /\ sat_value = Unused /\ sat_dtype = Unused /\ sat_out = Unused
  /\ red_op = Unused /\ red_x = Unused /\ red_axis = Unused
  /\ red_alias = Unused /\ red_keep = Unused /\ red_out = Unused
  /\ mm_a = Unused /\ mm_b = Unused /\ mm_flags = Unused /\ mm_out = Unused
  /\ rs_shape = Unused /\ rs_axes = Unused /\ rs_out = Unused
  /\ acc_inputs = Unused /\ acc_out = Unused /\ acc_val = Unused /\ acc_local = Unused /\ acc_var = Unused /\ acc_lock = Unused /\ acc_ret = Unused

\* The call truediv(div_x, div_y).
Truediv ==
  /\ pc = "call"
  /\ div_out' = [form |-> "dense", r |-> truediv(div_x, div_y)]
  /\ pc' = "done"
  /\ UNCHANGED <<div_x, div_y>>
  /\ UNCHANGED tensordot_vars
  /\ UNCHANGED saturate_vars
  /\ UNCHANGED reduction_vars
  /\ UNCHANGED matmul_vars
  /\ UNCHANGED shape_vars
  /\ UNCHANGED accumulate_vars

\* The division sp / div_y of a sparse tensor with the values div_x.
SparseDenseTruediv ==
  /\ pc = "call"
  /\ div_out' = [form |-> "sparse", r |-> binary_op_wrapper_sparse(div_x, div_y)]
  /\ pc' = "done"
  /\ UNCHANGED <<div_x, div_y>>
  /\ UNCHANGED tensordot_vars
  /\ UNCHANGED saturate_vars
  /\ UNCHANGED reduction_vars
  /\ UNCHANGED matmul_vars
  /\ UNCHANGED shape_vars
  /\ UNCHANGED accumulate_vars

\* The call _sparse_dense_truediv(sp_indices, div_x, sp_shape, div_y) itself,
\* without the operator's conversion of div_y.
SparseDenseTruedivCall ==
  /\ pc = "call"
  /\ div_out' = [form |-> "sparse_call", r |-> sparse_dense_truediv(div_x, div_y)]
  /\ pc' = "done"
  /\ UNCHANGED <<div_x, div_y>>
  /\ UNCHANGED tensordot_vars
  /\ UNCHANGED saturate_vars
  /\ UNCHANGED reduction_vars
  /\ UNCHANGED matmul_vars
  /\ UNCHANGED shape_vars
  /\ UNCHANGED accumulate_vars

TruedivNext == Truediv \/ SparseDenseTruediv \/ SparseDenseTruedivCall

TruedivSpec == TruedivInit /\ [][TruedivNext]_vars

\* The nodes of a division that casts both operands to dtype first.
PromotedNodes(op, src, dtype) ==
  <<Node("Cast", src, <<>>, dtype), Node("Cast", src, <<>>, dtype),
    Node(op, dtype, <<>>, dtype)>>

DivisionOp == IF div_out.form = "dense" THEN "RealDiv" ELSE "SparseDenseCwiseDiv"

\* C14: with both operands of one type d, true division casts both to
\* float32 when d is an integer of 8 or 16 bits, to float64 when d is an
\* integer of 32 or 64 bits, and casts nothing when d is floating or
\* complex; the two inputs of the division primitive share one floating or
\* complex type.
C14_Promotion ==
  (Done /\ div_x.dtype = div_y.dtype) =>
    LET d == div_x.dtype
        r == div_out.r
    IN /\ (d.kind = "int" /\ d.bits \in {8, 16}) =>
            /\ r.raised = ""
            /\ r.nodes = PromotedNodes(DivisionOp, d, float32)
            /\ r.x = Scalar(float32, div_x.v) /\ r.y = Scalar(float32, div_y.v)
       /\ (d.kind = "int" /\ d.bits \in {32, 64}) =>
            /\ r.raised = ""
            /\ r.nodes = PromotedNodes(DivisionOp, d, float64)
            /\ r.x = Scalar(float64, div_x.v) /\ r.y = Scalar(float64, div_y.v)
       /\ d.kind \in {"float", "complex"} =>
            /\ \A i \in 1..Len(r.nodes) : r.nodes[i].op # "Cast"
            /\ r.x = div_x /\ r.y = div_y
       /\ r.raised = "" =>
            /\ r.x.dtype = r.y.dtype
            /\ r.x.dtype.kind \in {"float", "complex"}
            /\ r.nodes[Len(r.nodes)] = Node(DivisionOp, r.x.dtype, <<>>, r.x.dtype)

\* C14 witness: int32 / int32 is divided as float64 / float64.
C14_Witness ==
  /\ Done
  /\ div_x.dtype = int32 /\ div_y.dtype = int32
  /\ div_out.form = "dense"
  /\ div_out.r.raised = ""
  /\ div_out.r.x.dtype = float64 /\ div_out.r.y.dtype = float64
  /\ Len(div_out.r.nodes) = 3

\* The failures on operands whose types do not match: the TypeError of the
\* comparison of the types (lines 893-897 and 915-917), and, for sp / y, the
\* error of the conversion of y to the type of sp (line 836), which comes
\* before that comparison.
MismatchErrors == {"TypeMismatch", "ValueError"}

\* C15: true division, dense or sparse by dense, of operands of different
\* types always fails on the mismatch of the types, also when a type has no
\* entry in the table: the types are compared before the table is read (the
\* failure is never the one of the table), and no cast and no division is
\* built.  truediv and _sparse_dense_truediv fail in their comparison of
\* the types, with the TypeError of the mismatch.
C15_TypeMismatch ==
  (Done /\ div_x.dtype # div_y.dtype) =>
    /\ div_out.r.raised \in MismatchErrors
    /\ div_out.r.raised # "UnsupportedType"
    /\ div_out.r.nodes = <<>>
    /\ div_out.form \in {"dense", "sparse_call"} =>
         /\ div_out.r.raised = "TypeMismatch"
         /\ ExcClass(div_out.r.raised) = "TypeError"

\* C15 witness: _sparse_dense_truediv on bool values and a string tensor,
\* two types without entry in the table.
C15_Witness ==
  /\ Done
  /\ div_x.dtype = bool /\ div_y.dtype = string
  /\ div_out.form = "sparse_call"
  /\ div_out.r.raised = "TypeMismatch"
  /\ div_out.r.nodes = <<>>

\* sp / y with bool values in sp and an int32 tensor y: the call fails in the
\* conversion of y and builds nothing.
C15_WitnessOperator ==
  /\ Done
  /\ div_x.dtype = bool /\ div_y.dtype = int32
  /\ div_out.form = "sparse"
  /\ div_out.r.raised = "ValueError"
  /\ div_out.r.nodes = <<>>

\* C16: true division of operands of one type fails with the
\* unsupported-type error (a TypeError) exactly when the type has no entry in
\* the table, and succeeds for every type with an entry.
C16_UnsupportedType ==
  (Done /\ div_x.dtype = div_y.dtype) =>
    LET entry == div_x.dtype \in
                   {uint8, int8, uint16, int16, int32, int64, float16,
                    float32, float64, complex64, complex128}
    IN /\ ~entry <=> div_out.r.raised = "UnsupportedType"
       /\ entry <=> div_out.r.raised = ""
       /\ ~entry => /\ ExcClass(div_out.r.raised) = "TypeError"
                    /\ div_out.r.nodes = <<>>

\* C16 witness: bool / bool fails with the unsupported-type error.
C16_Witness ==
  /\ Done
  /\ div_x.dtype = bool /\ div_y.dtype = bool
  /\ div_out.form = "dense"
  /\ div_out.r.raised = "UnsupportedType"

\* C16 witness of the other direction: float16 / float16 succeeds.
C16_WitnessEntry ==
  /\ Done
  /\ div_x.dtype = float16 /\ div_y.dtype = float16
  /\ div_out.r.raised = ""

----------------------------------------------------------------------------
(* Reductions: the axis resolver _ReductionDims, the reduce_* operations,  *)
(* count_nonzero, argmax and argmin.  The tensor to reduce is a record     *)
(* [kind, shape, static]: kind is "dense" or "sparse", shape the run-time  *)
(* shape and static what the graph knows of it; for a sparse tensor static *)
(* is what the graph knows of the shape of its dense_shape vector.         *)

RedInput(kind, shape, static) == [kind |-> kind, shape |-> shape, static |-> static]

\* An axis argument: None, a Python int, or a list of ints; and what the
\* resolver makes itself: a constant ("const") or the output of Range
\* ("range").  v holds the axes.
Arg(kind, v) == [kind |-> kind, v |-> v]

NoneArg == Arg("none", <<>>)

IntArg(i) == Arg("int", <<i>>)

ListArg(l) == Arg("list", l)

\* A node of a reduction: the operation, its axes input and keep_dims.
RNode(op, dims, keep_dims) == [op |-> op, dims |-> dims, keep_dims |-> keep_dims]

\* A node that has no axes input.
PlainNode(op) == RNode(op, NoneArg, FALSE)

\* What the resolver returns: the exception raised ("" for none), the axes
\* and the nodes added to the graph.
Resolved(raised, dims, nodes) == [raised |-> raised, dims |-> dims, nodes |-> nodes]

\* A faulty variant of np.arange: it counts from 1.
ArangeFromOne(n) == [k \in 1..n |-> k]

\* np.arange(n)
Arange(n) == XRange(n)

\* A faulty variant of the test: equal values are let through.
ConflictingWhenDifferent(axis, alias) ==
  alias # NoneArg /\ axis # NoneArg /\ axis # alias

\* alias is not None and axis is not None
Conflicting(axis, alias) == alias # NoneArg /\ axis # NoneArg

\* A faulty variant of the test: the static rank is never used.
StaticRankNeverKnown(x) == FALSE

\* The rank of x is known when the graph is built: ndims of a dense tensor,
\* the fully defined shape of the dense_shape of a sparse tensor.
StaticRankKnown(x) ==
  \/ x.kind = "dense" /\ x.static # "none"
  \/ x.kind = "sparse" /\ x.static = "full"

\* array_ops.rank(x) where the rank is taken at run time: Rank of a dense
\* tensor, Size of the dense_shape of a sparse tensor.  For a dense tensor
\* of known rank it is a constant.
RankNodes(x) ==
  IF x.kind = "sparse" THEN <<PlainNode("Size")>>
  ELSE IF x.static # "none" THEN <<>>
  ELSE <<PlainNode("Rank")>>

ReductionDims(x, axis, reduction_indices) ==
  IF Conflicting(axis, reduction_indices)
  THEN Resolved("ConflictingArguments", NoneArg, <<>>)
  ELSE LET given == IF reduction_indices # NoneArg THEN reduction_indices
                    ELSE axis
       IN IF given # NoneArg THEN Resolved("", given, <<>>)
          ELSE IF StaticRankKnown(x)
          THEN Resolved("", Arg("const", Arange(Len(x.shape))), <<>>)
          ELSE Resolved("", Arg("range", RangeVals(0, Len(x.shape))),
                        RankNodes(x) \o <<PlainNode("Range")>>)

\* The engine takes an axis in -rank..rank-1.
DimsOK(v, r) == \A k \in 1..Len(v) : v[k] \in (0 - r)..(r - 1)

\* The positions named by the axes v in a tensor of rank r.
DimSet(v, r) == {IF v[k] < 0 THEN v[k] + r ELSE v[k] : k \in 1..Len(v)}

\* The shape a reduction over the axes v leaves.
ReducedShape(shape, v, keep_dims) ==
  LET P == DimSet(v, Len(shape))
  IN IF keep_dims
     THEN [k \in 1..Len(shape) |-> IF (k - 1) \in P THEN 1 ELSE shape[k]]
     ELSE Gather(shape, SelectSeq(XRange(Len(shape)), LAMBDA i : i \notin P))

\* array_ops.squeeze(t, axis): without axes every dimension of size 1 goes,
\* with axes the named ones; a named dimension must have size 1.
SqueezeOK(shape, v) ==
  /\ DimsOK(v, Len(shape))
  /\ \A i \in DimSet(v, Len(shape)) : shape[i + 1] = 1

SqueezedShape(shape, v) ==
  IF v = <<>> THEN SelectSeq(shape, LAMBDA n : n # 1)
  ELSE Gather(shape, SelectSeq(XRange(Len(shape)),
                               LAMBDA i : i \notin DimSet(v, Len(shape))))

\* What a reduction leaves behind: the exception raised ("" for none),
\* whether the graph was built but fails when it runs, the shape of the
\* value of the tensor returned, the axes given to the primitive, and the
\* nodes added to the graph, in order.
RedResult(raised, deferred, shape, dims, nodes) ==
  [raised |-> raised, deferred |-> deferred, shape |-> shape, dims |-> dims, nodes |-> nodes]

\* gen_math_ops._sum, _mean, _prod, _min, _max, _all, _any on the axes the
\* resolver returned, after the nodes before: axes out of range are an
\* error, found when the graph is built if the rank is known then.
Reduction(op, x, r, keep_dims, before) ==
  IF r.raised # "" THEN RedResult(r.raised, FALSE, <<>>, r.dims, before)
  ELSE LET node == RNode(op, r.dims, keep_dims)
           built == before \o r.nodes
       IN IF DimsOK(r.dims.v, Len(x.shape))
          THEN RedResult("", FALSE, ReducedShape(x.shape, r.dims.v, keep_dims),
                         r.dims, built \o <<node>>)
          ELSE IF x.static # "none"
          THEN RedResult("InvalidArgument", FALSE, <<>>, r.dims, built)
          ELSE RedResult("", TRUE, <<>>, r.dims, built \o <<node>>)

\* The primitive of each simple reduction.
Primitive ==
  [reduce_sum |-> "Sum", reduce_mean |-> "Mean", reduce_prod |-> "Prod",
   reduce_min |-> "Min", reduce_max |-> "Max", reduce_all |-> "All",
   reduce_any |-> "Any"]

SimpleReductions == DOMAIN Primitive

\* reduce_sum, reduce_mean, reduce_prod, reduce_min, reduce_max, reduce_all
\* and reduce_any.
reduce(op, input_tensor, axis, keep_dims, reduction_indices) ==
  Reduction(Primitive[op], input_tensor,
            ReductionDims(input_tensor, axis, reduction_indices), keep_dims,
            <<>>)

\* count_nonzero with the default dtype int64: NotEqual and the cast to
\* int64 are built first, then reduce_sum; its int64 result is returned as
\* it is.
count_nonzero(input_tensor, axis, keep_dims, reduction_indices) ==
  Reduction("Sum", input_tensor,
            ReductionDims(input_tensor, axis, reduction_indices), keep_dims,
            <<PlainNode("NotEqual"), PlainNode("Cast")>>)

\* if isinstance(axis, int): axis = [axis]; squeeze takes None as no axes.
SqueezeAxis(axis) == ListArg(axis.v)

reduce_logsumexp(input_tensor, axis, keep_dims, reduction_indices) ==
  LET my_max == reduce("reduce_max", input_tensor, axis, TRUE, reduction_indices)
      shifted == my_max.nodes
                 \o <<PlainNode("StopGradient"), PlainNode("Sub"), PlainNode("Exp")>>
      sum == Reduction("Sum", input_tensor,
                       ReductionDims(input_tensor, axis, reduction_indices),
                       TRUE, shifted)
      result == sum.nodes \o <<PlainNode("Log"), PlainNode("Add")>>
      squeeze == RNode("Squeeze", SqueezeAxis(axis), FALSE)
  IN IF my_max.raised # "" THEN my_max
     ELSE IF sum.raised # "" THEN sum
     ELSE IF keep_dims
     THEN RedResult("", sum.deferred, sum.shape, sum.dims, result)
     ELSE IF sum.deferred
     THEN RedResult("", TRUE, <<>>, sum.dims, result \o <<squeeze>>)
     ELSE IF SqueezeOK(sum.shape, SqueezeAxis(axis).v)
     THEN RedResult("", FALSE, SqueezedShape(sum.shape, SqueezeAxis(axis).v),
                    sum.dims, result \o <<squeeze>>)
     ELSE RedResult("InvalidArgument", FALSE, <<>>, sum.dims, result)

\* gen_math_ops.arg_max and arg_min: the axis is one int in 0..rank-1; None
\* cannot be made a tensor.
ArgReduction(op, x, axis) ==
  IF axis = NoneArg THEN RedResult("NoneValue", FALSE, <<>>, axis, <<>>)
  ELSE IF axis.kind = "int" /\ axis.v[1] \in 0..(Len(x.shape) - 1)
  THEN RedResult("", FALSE, ReducedShape(x.shape, axis.v, FALSE), axis,
                 <<RNode(op, axis, FALSE)>>)
  ELSE IF x.static # "none" \/ axis.kind # "int"
  THEN RedResult("InvalidArgument", FALSE, <<>>, axis, <<>>)
  ELSE RedResult("", TRUE, <<>>, axis, <<RNode(op, axis, FALSE)>>)

\* argmax and argmin, told apart by the primitive op.
argmaxmin(op, input, axis, dimension) ==
  IF dimension # NoneArg /\ axis # NoneArg
  THEN RedResult("ConflictingArguments", FALSE, <<>>, NoneArg, <<>>)
  ELSE ArgReduction(op, input, IF dimension # NoneArg THEN dimension ELSE axis)

argmax(input, axis, dimension) == argmaxmin("ArgMax", input, axis, dimension)

argmin(input, axis, dimension) == argmaxmin("ArgMin", input, axis, dimension)

\* The tensors to reduce.
DenseInputs == {RedInput("dense", s, st) : s \in Shapes, st \in Statics}

SparseInputs == {RedInput("sparse", s, st) : s \in Shapes, st \in Statics}

\* The axis arguments that are not None: every int and every list of up to
\* MaxAxes ints from -NegAxes-1 to MaxRank.
AxisValues == (0 - NegAxes - 1)..MaxRank

AxisArgs ==
  {IntArg(i) : i \in AxisValues}
  \cup {ListArg(l) : l \in SeqsUpTo((0 - NegAxes)..(MaxRank - 1), MaxAxes)}

\* The arguments given together with another one.
PairedArgs == {IntArg(0), IntArg(1), ListArg(<<>>), ListArg(<<0>>), ListArg(<<1, 0>>)}

ArgOperations == {"argmax", "argmin"}

Operations ==
  SimpleReductions \cup ArgOperations
  \cup {"_ReductionDims", "reduce_logsumexp", "count_nonzero"}

ReductionInit ==
  /\ red_op \in Operations
  /\ red_x \in IF red_op = "_ReductionDims" THEN DenseInputs \cup SparseInputs
               ELSE DenseInputs
  /\ \/ red_axis = NoneArg /\ red_alias = NoneArg
     \/ red_axis \in AxisArgs /\ red_alias = NoneArg
     \/ red_axis = NoneArg /\ red_alias \in AxisArgs
     \/ red_axis \in PairedArgs /\ red_alias \in PairedArgs
  /\ red_keep \in IF red_op \in ArgOperations \cup {"_ReductionDims"}
                  THEN {FALSE} ELSE BOOLEAN
  /\ red_out = Unused
  /\ pc = "call"
  /\ a = Unused /\ b = Unused /\ axes = Unused /\ outcome = Unused
  /\ sat_value = Unused /\ sat_dtype = Unused /\ sat_out = Unused
  /\ div_x = Unused /\ div_y = Unused /\ div_out = Unused
  /\ mm_a = Unused /\ mm_b = Unused /\ mm_flags = Unused /\ mm_out = Unused
  /\ rs_shape = Unused /\ rs_axes = Unused /\ rs_out = Unused
  /\ acc_inputs = Unused /\ acc_out = Unused /\ acc_val = Unused /\ acc_local = Unused /\ acc_var = Unused /\ acc_lock = Unused /\ acc_ret = Unused

\* What every call of the reduction component leaves alone.
ReductionFrame ==
  /\ pc' = "done"
  /\ UNCHANGED <<red_op, red_x, red_axis, red_alias, red_keep>>
  /\ UNCHANGED tensordot_vars
  /\ UNCHANGED saturate_vars
  /\ UNCHANGED truediv_vars
  /\ UNCHANGED matmul_vars
  /\ UNCHANGED shape_vars
  /\ UNCHANGED accumulate_vars

\* The call _ReductionDims(red_x, red_axis, red_alias).
ResolveAxes ==
  /\ pc = "call" /\ red_op = "_ReductionDims"
  /\ LET r == ReductionDims(red_x, red_axis, red_alias)
     IN red_out' = RedResult(r.raised, FALSE, <<>>, r.dims, r.nodes)
  /\ ReductionFrame

\* A call of one of the simple reductions.
Reduce ==
  /\ pc = "call" /\ red_op \in SimpleReductions
  /\ red_out' = reduce(red_op, red_x, red_axis, red_keep, red_alias)
  /\ ReductionFrame

ReduceLogsumexp ==
  /\ pc = "call" /\ red_op = "reduce_logsumexp"
  /\ red_out' = reduce_logsumexp(red_x, red_axis, red_keep, red_alias)
  /\ ReductionFrame

CountNonzero ==
  /\ pc = "call" /\ red_op = "count_nonzero"
  /\ red_out' = count_nonzero(red_x, red_axis, red_keep, red_alias)
  /\ ReductionFrame

ArgMax ==
  /\ pc = "call" /\ red_op = "argmax"
  /\ red_out' = argmax(red_x, red_axis, red_alias)
  /\ ReductionFrame

ArgMin ==
  /\ pc = "call" /\ red_op = "argmin"
  /\ red_out' = argmin(red_x, red_axis, red_alias)
  /\ ReductionFrame

ReductionNext ==
  \/ ResolveAxes
  \/ Reduce
  \/ ReduceLogsumexp
  \/ CountNonzero
  \/ ArgMax
  \/ ArgMin

ReductionSpec == ReductionInit /\ [][ReductionNext]_vars

----------------------------------------------------------------------------
(* The cases of a call of the reduction component.                         *)

NeitherGiven == red_axis = NoneArg /\ red_alias = NoneArg

BothGiven == red_axis # NoneArg /\ red_alias # NoneArg

OneGiven == (red_axis = NoneArg) # (red_alias = NoneArg)

\* The graph knows the rank of red_x.
KnownRank ==
  IF red_x.kind = "dense" THEN red_x.static \in {"full", "rank"}
  ELSE red_x.static = "full"

\* The resolver was called, by itself or by one of the simple reductions.
ResolverCase == red_op = "_ReductionDims" \/ red_op \in SimpleReductions

\* 0, 1, ..., r-1
AllAxes(r) == [k \in 1..r |-> k - 1]

\* The primitives that reduce.
ReducingOps ==
  {"Sum", "Mean", "Prod", "Min", "Max", "All", "Any", "ArgMax", "ArgMin"}

\* C17: on a value of statically known rank r, with neither axis nor its
\* alias given, the resolver returns the constant 0, 1, ..., r-1 in
\* increasing order (empty for r = 0): for a dense tensor by its static rank,
\* for a sparse tensor by the static length of its dense shape.
C17_AllAxesConstant ==
  (Done /\ ResolverCase /\ NeitherGiven /\ KnownRank) =>
    /\ red_out.raised = ""
    /\ red_out.dims.kind = "const"
    /\ red_out.dims.v = AllAxes(Len(red_x.shape))
    /\ red_out.dims.v = Ascending(0..(Len(red_x.shape) - 1))

\* C17 witness: a sparse tensor of rank 3 whose dense shape has a known
\* length gives 0, 1, 2.
C17_Witness ==
  /\ Done /\ red_op = "_ReductionDims" /\ NeitherGiven
  /\ red_x.kind = "sparse" /\ red_x.static = "full"
  /\ red_out.dims = Arg("const", <<0, 1, 2>>)

\* C17 witness for rank 0: a dense scalar gives the empty constant.
C17_WitnessScalar ==
  /\ Done /\ red_op = "_ReductionDims" /\ NeitherGiven
  /\ red_x = RedInput("dense", <<>>, "full")
  /\ red_out.dims = Arg("const", <<>>)

\* C18: with both axis and its alias given (reduction_indices for the
\* reduce_* operations, dimension for argmax and argmin) the call fails with
\* the conflicting-arguments error, a ValueError, also when the two values
\* are equal, and no reduction node is built.
C18_ConflictingArguments ==
  (Done /\ BothGiven) =>
    /\ red_out.raised = "ConflictingArguments"
    /\ ExcClass(red_out.raised) = "ValueError"
    /\ \A i \in 1..Len(red_out.nodes) : red_out.nodes[i].op \notin ReducingOps
    /\ red_op # "count_nonzero" => red_out.nodes = <<>>

\* C18 witness: reduce_sum with axis=0 and reduction_indices=0.
C18_Witness ==
  /\ Done /\ red_op = "reduce_sum"
  /\ red_axis = IntArg(0) /\ red_alias = IntArg(0)
  /\ red_out.raised = "ConflictingArguments"
  /\ red_out.nodes = <<>>

\* C18 witness for argmax: axis=1 and dimension=0.
C18_WitnessArgMax ==
  /\ Done /\ red_op = "argmax"
  /\ red_axis = IntArg(1) /\ red_alias = IntArg(0)
  /\ red_out.raised = "ConflictingArguments"

\* The result of the operation op called with the given arguments.
Called(op, x, axis, keep_dims, alias) ==
  IF op = "_ReductionDims"
  THEN LET r == ReductionDims(x, axis, alias)
       IN RedResult(r.raised, FALSE, <<>>, r.dims, r.nodes)
  ELSE IF op \in SimpleReductions THEN reduce(op, x, axis, keep_dims, alias)
  ELSE IF op = "reduce_logsumexp" THEN reduce_logsumexp(x, axis, keep_dims, alias)
  ELSE IF op = "count_nonzero" THEN count_nonzero(x, axis, keep_dims, alias)
  ELSE IF op = "argmax" THEN argmax(x, axis, alias)
  ELSE argmin(x, axis, alias)

\* The one argument given.
GivenArg == IF red_axis # NoneArg THEN red_axis ELSE red_alias

\* C19: with exactly one of axis and its alias given, the resolver returns
\* that value as it is, whatever the rank, and a reduction called with the
\* value as the alias is built as the same reduction called with the value
\* as axis (compared for axes that the tensor has).
C19_GivenAxisUnchanged ==
  (Done /\ OneGiven) =>
    /\ ResolverCase => red_out.dims = GivenArg
    /\ red_op = "_ReductionDims" =>
         /\ red_out.raised = ""
         /\ red_out.nodes = <<>>
    /\ DimsOK(GivenArg.v, Len(red_x.shape)) =>
         red_out = Called(red_op, red_x, red_alias, red_keep, red_axis)

\* C19 on every operation but reduce_logsumexp without keep_dims.
C19_ExceptLogsumexp ==
  (red_op = "reduce_logsumexp" /\ ~red_keep) \/ C19_GivenAxisUnchanged

\* C20: with no axis given the resolver adds the rank query and the Range
\* node only when the rank is not statically known; with a known rank it
\* returns a constant and adds neither; with an unknown rank the Range of
\* the run-time rank is 0..rank-1, so both denote the same axes.
C20_NodesOnlyWhenRankUnknown ==
  (Done /\ red_op = "_ReductionDims" /\ NeitherGiven) =>
    /\ red_out.raised = ""
    /\ KnownRank =>
         /\ red_out.dims.kind = "const"
         /\ red_out.nodes = <<>>
    /\ ~KnownRank =>
         /\ red_out.dims.kind = "range"
         /\ Len(red_out.nodes) = 2
         /\ red_out.nodes[1].op = (IF red_x.kind = "dense" THEN "Rank" ELSE "Size")
         /\ red_out.nodes[2].op = "Range"
    /\ red_out.dims.v = AllAxes(Len(red_x.shape))

\* C20 witness: a dense tensor of unknown rank, 2 when the graph runs:
\* Rank and Range are added and the axes are 0, 1.
C20_Witness ==
  /\ Done /\ red_op = "_ReductionDims" /\ NeitherGiven
  /\ red_x.kind = "dense" /\ red_x.static = "none"
  /\ red_out.dims = Arg("range", <<0, 1>>)
  /\ red_out.nodes = <<PlainNode("Rank"), PlainNode("Range")>>

----------------------------------------------------------------------------
(* Failures and the graph.                                                 *)

\* C21: a call of tensordot that fails while the graph is built (invalid
\* axes length, invalid axis count, axis out of range, shape mismatch) has
\* added no node to the graph.  Stated on operands of fully defined shape
\* and axes given as an int or as lists.
C21_GraphUnchangedOnFailure ==
  (Done /\ BothFull /\ axes.kind \in {"int", "list"} /\ outcome.raised # "") =>
    outcome.nodes = <<>>

\* The part of C21 on true division: a call that fails (type mismatch,
\* unsupported type) has added no cast and no division.
C21_TruedivPart ==
  (Done /\ div_out.r.raised # "") => div_out.r.nodes = <<>>


----------------------------------------------------------------------------
(* matmul: the checks on the flags, the conversion of the operands, the    *)
(* choice of the primitive and the transformation of each operand.         *)

\* An element of a matrix: the pair of its real and its imaginary part.
Complex(re, im) == <<re, im>>

CAdd(z, w) == Complex(z[1] + w[1], z[2] + w[2])

CMul(z, w) == Complex(z[1] * w[1] - z[2] * w[2], z[1] * w[2] + z[2] * w[1])

RECURSIVE CSumTo(_, _)
\* F[0] + ... + F[n-1] over complex numbers.
CSumTo(F, n) == IF n = 0 THEN Complex(0, 0) ELSE CAdd(F[n - 1], CSumTo(F, n - 1))

\* An operand of matmul: a tensor of the graph, or (literal) a value that is
\* not yet a tensor, such as a nested list or an ndarray.  static is "full"
\* when the shape of the tensor is known while the graph is built and
\* "none" when not even its rank is.
MatOperand(shape, vals, static, dtype, literal) ==
  [shape |-> shape, vals |-> vals, static |-> static, dtype |-> dtype,
   literal |-> literal]

\* A node that matmul adds to the graph: the operation, the operand it is
\* applied to ("a", "b" or "ab") and the two boolean attributes of a
\* primitive.
MatNode(op, of, fx, fy) == [op |-> op, of |-> of, fx |-> fx, fy |-> fy]

\* ops.convert_to_tensor: a tensor is returned as it is, any other value
\* becomes a constant of the graph.
mat_convert_to_tensor(x, of) ==
  [t |-> [x EXCEPT !.literal = FALSE],
   nodes |-> IF x.literal THEN <<MatNode("Const", of, FALSE, FALSE)>> ELSE <<>>]

\* The permutation that exchanges the last two of r dimensions.
SwapLastTwo(r) ==
  [k \in 1..r |-> IF k = r - 1 THEN r - 1 ELSE IF k = r THEN r - 2 ELSE k - 1]

\* The matrix transpose of a tensor of rank >= 2: its last two dimensions
\* exchanged.
MatTranspose(t) ==
  LET v == Transpose(t, SwapLastTwo(Len(t.shape)))
  IN [t EXCEPT !.shape = v.shape, !.vals = v.vals]

\* The complex conjugate of every element.
Conjugate(t) ==
  [t EXCEPT !.vals = [f \in 1..Len(t.vals) |-> Complex(t.vals[f][1], -t.vals[f][2])]]

\* The conjugate transpose of a tensor of rank >= 2.
Adjoint(t) == Conjugate(MatTranspose(t))

\* conj that returns every tensor as it is.
conjNoOp(x, of) ==
  IF x.dtype.kind = "complex" THEN [raised |-> "", t |-> x, nodes |-> <<MatNode("Conj", of, FALSE, FALSE)>>]
  ELSE IF x.dtype.kind \in {"float", "int"} THEN [raised |-> "", t |-> x, nodes |-> <<>>]
  ELSE [raised |-> "TypeError", t |-> x, nodes |-> <<>>]

\* conj: a Conj node on a complex tensor, the tensor itself when it is real,
\* a TypeError on a tensor that is not numeric.
conj(x, of) ==
  IF x.dtype.kind = "complex" THEN [raised |-> "", t |-> Conjugate(x), nodes |-> <<MatNode("Conj", of, FALSE, FALSE)>>]
  ELSE IF x.dtype.kind \in {"float", "int"} THEN [raised |-> "", t |-> x, nodes |-> <<>>]
  ELSE [raised |-> "TypeError", t |-> x, nodes |-> <<>>]

\* The product of two stacks of matrices: x of shape [..., m, n] and y of
\* shape [..., n, p] with the same leading dimensions.
BatchProduct(x, y) ==
  LET r == Len(x.shape)
      lead == SubSeq(x.shape, 1, r - 2)
      m == x.shape[r - 1]
      n == x.shape[r]
      p == y.shape[r]
      entry(f) ==
        LET q == (f - 1) \div (m * p)
            i == ((f - 1) % (m * p)) \div p
            j == (f - 1) % p
        IN CSumTo([k \in 0..(n - 1) |->
                     CMul(x.vals[q * m * n + i * n + k + 1],
                          y.vals[q * n * p + k * p + j + 1])], n)
  IN Value(lead \o <<m, p>>, [f \in 1..(Prod(lead) * m * p) |-> entry(f)])

\* What matmul returns or raises: the exception, the primitive the call
\* was dispatched to, the two matrices the primitive multiplies (each
\* operand after every transformation applied to it), the product, and the
\* nodes added to the graph.
MatResult(raised, primitive, x, y, value, nodes) ==
  [raised |-> raised, primitive |-> primitive, x |-> x, y |-> y,
   value |-> value, nodes |-> nodes]

\* A primitive given operands it cannot multiply: when both shapes are known
\* while the graph is built the node is refused; otherwise the node is
\* added, the call returns its output, and the product fails when the graph
\* is run.
Refused(primitive, x, y, fx, fy, before) ==
  MatResult("ShapeError", primitive, NoValue, NoValue, NoValue,
            IF x.static = "full" /\ y.static = "full" THEN before
            ELSE before \o <<MatNode(primitive, "ab", fx, fy)>>)

\* A primitive applied to the operands as it transforms them: it multiplies
\* when the operands have the ranks it accepts and shapes that agree.
Multiply(primitive, x, y, ranks_ok, fx, fy, before) ==
  LET r == Len(x.shape)
  IN IF /\ ranks_ok
        /\ Len(y.shape) = r
        /\ SubSeq(x.shape, 1, r - 2) = SubSeq(y.shape, 1, r - 2)
        /\ x.shape[r] = y.shape[r - 1]
     THEN MatResult("", primitive, Value(x.shape, x.vals), Value(y.shape, y.vals),
                    BatchProduct(x, y),
                    before \o <<MatNode(primitive, "ab", fx, fy)>>)
     ELSE Refused(primitive, x, y, fx, fy, before)

\* gen_math_ops._batch_mat_mul: multiplies the matrices in the last two
\* dimensions, each operand conjugate-transposed first when its adj flag
\* is set.
batch_mat_mul(x, y, adj_x, adj_y, before) ==
  Multiply("BatchMatMul",
           IF adj_x THEN Adjoint(x) ELSE x, IF adj_y THEN Adjoint(y) ELSE y,
           Len(x.shape) >= 2 /\ Len(y.shape) >= 2, adj_x, adj_y, before)

\* gen_math_ops._mat_mul: multiplies two matrices, each transposed first
\* when its transpose flag is set.
mat_mul(x, y, transpose_a, transpose_b, before) ==
  IF Len(x.shape) = 2 /\ Len(y.shape) = 2
  THEN Multiply("MatMul",
                IF transpose_a THEN MatTranspose(x) ELSE x,
                IF transpose_b THEN MatTranspose(y) ELSE y,
                TRUE, transpose_a, transpose_b, before)
  ELSE Refused("MatMul", x, y, transpose_a, transpose_b, before)

\* sparse_matmul (gen_math_ops._sparse_mat_mul): multiplies two matrices of
\* type float32 or bfloat16, each transposed first when its flag is set.
sparse_matmul(x, y, transpose_a, transpose_b, before) ==
  IF Len(x.shape) = 2 /\ Len(y.shape) = 2
  THEN Multiply("SparseMatMul",
                IF transpose_a THEN MatTranspose(x) ELSE x,
                IF transpose_b THEN MatTranspose(y) ELSE y,
                TRUE, transpose_a, transpose_b, before)
  ELSE Refused("SparseMatMul", x, y, transpose_a, transpose_b, before)

\* The flags of a call of matmul.
MatFlags(transpose_a, transpose_b, adjoint_a, adjoint_b, a_is_sparse, b_is_sparse) ==
  [transpose_a |-> transpose_a, transpose_b |-> transpose_b,
   adjoint_a |-> adjoint_a, adjoint_b |-> adjoint_b,
   a_is_sparse |-> a_is_sparse, b_is_sparse |-> b_is_sparse]

\* a_shape.ndims is None: the rank is not known while the graph is built.
NdimsIsNone(t) == t.static = "none"

\* The test of lines 1756-1758: no sparse flag, and each rank unknown or
\* greater than 2.
UseBatch(ta, tb, f) ==
  /\ ~f.a_is_sparse /\ ~f.b_is_sparse
  /\ (NdimsIsNone(ta) \/ Len(ta.shape) > 2)
  /\ (NdimsIsNone(tb) \/ Len(tb.shape) > 2)

\* The part of matmul after the checks on the flags.
matmulDispatch(a_in, b_in, f) ==
  LET ca == mat_convert_to_tensor(a_in, "a")
      cb == mat_convert_to_tensor(b_in, "b")
      converted == ca.nodes \o cb.nodes
      ja == conj(ca.t, "a")
      jb == conj(cb.t, "b")
      conjugated_a == IF UseBatch(ca.t, cb.t, f) THEN f.transpose_a ELSE f.adjoint_a
      conjugated_b == IF UseBatch(ca.t, cb.t, f) THEN f.transpose_b ELSE f.adjoint_b
  IN IF conjugated_a /\ ja.raised # ""
     THEN MatResult(ja.raised, "", NoValue, NoValue, NoValue, converted)
     ELSE IF conjugated_b /\ jb.raised # ""
     THEN MatResult(jb.raised, "", NoValue, NoValue, NoValue,
                    converted \o (IF conjugated_a THEN ja.nodes ELSE <<>>))
     ELSE IF UseBatch(ca.t, cb.t, f)
     THEN LET a1 == IF f.transpose_a THEN ja.t ELSE ca.t
              b1 == IF f.transpose_b THEN jb.t ELSE cb.t
              adjoint_a == f.transpose_a \/ f.adjoint_a
              adjoint_b == f.transpose_b \/ f.adjoint_b
              built == converted
                         \o (IF f.transpose_a THEN ja.nodes ELSE <<>>)
                         \o (IF f.transpose_b THEN jb.nodes ELSE <<>>)
          IN batch_mat_mul(a1, b1, adjoint_a, adjoint_b, built)
     ELSE LET a1 == IF f.adjoint_a THEN ja.t ELSE ca.t
              b1 == IF f.adjoint_b THEN jb.t ELSE cb.t
              transpose_a == f.adjoint_a \/ f.transpose_a
              transpose_b == f.adjoint_b \/ f.transpose_b
              built == converted
                         \o (IF f.adjoint_a THEN ja.nodes ELSE <<>>)
                         \o (IF f.adjoint_b THEN jb.nodes ELSE <<>>)
              sparse_matmul_types == {bfloat16, float32}
              use_sparse_matmul ==
                \/ /\ a1.dtype \in sparse_matmul_types
                   /\ b1.dtype \in sparse_matmul_types
                   /\ (f.a_is_sparse \/ f.b_is_sparse)
                \/ bfloat16 \in {a1.dtype, b1.dtype}
          IN IF use_sparse_matmul
             THEN sparse_matmul(a1, b1, transpose_a, transpose_b, built)
             ELSE mat_mul(a1, b1, transpose_a, transpose_b, built)

\* matmul that converts its operands before it checks the flags.
matmulConvertFirst(a_in, b_in, f) ==
  LET converted == mat_convert_to_tensor(a_in, "a").nodes \o mat_convert_to_tensor(b_in, "b").nodes
  IN IF f.transpose_a /\ f.adjoint_a
     THEN MatResult("ValueError", "", NoValue, NoValue, NoValue, converted)
     ELSE IF f.transpose_b /\ f.adjoint_b
     THEN MatResult("ValueError", "", NoValue, NoValue, NoValue, converted)
     ELSE matmulDispatch(a_in, b_in, f)

\* matmul(a, b, transpose_a, transpose_b, adjoint_a, adjoint_b, a_is_sparse,
\* b_is_sparse).
matmul(a_in, b_in, f) ==
  IF f.transpose_a /\ f.adjoint_a
  THEN MatResult("ValueError", "", NoValue, NoValue, NoValue, <<>>)
  ELSE IF f.transpose_b /\ f.adjoint_b
  THEN MatResult("ValueError", "", NoValue, NoValue, NoValue, <<>>)
  ELSE matmulDispatch(a_in, b_in, f)

\* The shapes of the operands: matrices, and stacks of MaxDim matrices.
MatShapes ==
  LET M == {<<m, n>> : m \in 1..MaxDim, n \in 1..MaxDim}
  IN M \cup {<<MaxDim>> \o s : s \in M}

\* The elements of an operand: real ones for a real type.
MatVals(shape, dtype, first) ==
  [f \in 1..Prod(shape) |->
     Complex(first + f, IF dtype.kind = "complex" THEN f ELSE 0)]

\* The operands of a type: tensors of known and of unknown rank, and, for the
\* types a literal can have, literals.
MatOperands(dtype, first) ==
  {MatOperand(s, MatVals(s, dtype, first), st, dtype, FALSE) :
     s \in MatShapes, st \in {"full", "none"}}
  \cup {MatOperand(s, MatVals(s, dtype, first), "full", dtype, TRUE) :
          s \in IF dtype = bfloat16 THEN {} ELSE MatShapes}

MatDTypes == {float32, complex64, bfloat16}

NoMatResult == MatResult("", "", NoValue, NoValue, NoValue, <<>>)

MatmulInit ==
  /\ \E d \in MatDTypes :
       /\ mm_a \in MatOperands(d, 0)
       /\ mm_b \in MatOperands(d, 1)
  /\ mm_flags \in {MatFlags(ta, tb, aa, ab, sa, sb) :
                     ta \in BOOLEAN, tb \in BOOLEAN, aa \in BOOLEAN,
                     ab \in BOOLEAN, sa \in BOOLEAN, sb \in BOOLEAN}
  /\ mm_out = NoMatResult
  /\ pc = "call"
  /\ a = Unused /\ b = Unused /\ axes = Unused /\ outcome = Unused
  /\ sat_value = Unused /\ sat_dtype = Unused /\ sat_out = Unused
  /\ div_x = Unused /\ div_y = Unused /\ div_out = Unused
  /\ red_op = Unused /\ red_x = Unused /\ red_axis = Unused
  /\ red_alias = Unused /\ red_keep = Unused /\ red_out = Unused
  /\ rs_shape = Unused /\ rs_axes = Unused /\ rs_out = Unused
  /\ acc_inputs = Unused /\ acc_out = Unused /\ acc_val = Unused /\ acc_local = Unused /\ acc_var = Unused /\ acc_lock = Unused /\ acc_ret = Unused

Matmul ==
  /\ pc = "call"
  /\ mm_out' = matmul(mm_a, mm_b, mm_flags)
  /\ pc' = "done"
  /\ UNCHANGED <<mm_a, mm_b, mm_flags>>
  /\ UNCHANGED <<tensordot_vars, saturate_vars, truediv_vars, reduction_vars>>
  /\ UNCHANGED shape_vars
  /\ UNCHANGED accumulate_vars

MatmulNext == Matmul

MatmulSpec == MatmulInit /\ [][MatmulNext]_vars

\* C22: a call of matmul with transpose_a and adjoint_a both true, or with
\* transpose_b and adjoint_b both true, raises a ValueError whatever the
\* other flags and the ranks of the operands are, and has added no node to
\* the graph: no constant for an operand that was not yet a tensor, no Conj
\* and no product.
C22_FlagConflictRaises ==
  (Done /\ ((mm_flags.transpose_a /\ mm_flags.adjoint_a)
              \/ (mm_flags.transpose_b /\ mm_flags.adjoint_b))) =>
    (mm_out.raised = "ValueError" /\ mm_out.nodes = <<>>)

\* A call with both flags of b set on a literal stack of complex matrices,
\* with a sparse flag set too.
C22_Witness ==
  /\ Done
  /\ mm_flags.transpose_b /\ mm_flags.adjoint_b
  /\ ~mm_flags.transpose_a /\ mm_flags.adjoint_a /\ mm_flags.b_is_sparse
  /\ mm_a.literal /\ Len(mm_a.shape) = 3 /\ mm_a.dtype = complex64
  /\ mm_b.static = "none"
  /\ mm_out.raised = "ValueError"

\* The matrix the caller asks matmul to multiply: the operand, its
\* transpose, or its conjugate transpose.
Requested(t, transposed, adjointed) ==
  LET r == IF transposed THEN MatTranspose(t)
           ELSE IF adjointed THEN Adjoint(t) ELSE t
  IN Value(r.shape, r.vals)

\* The node of the primitive in the graph a call has built.
PrimitiveNode == mm_out.nodes[Len(mm_out.nodes)]

\* A Conj node on the operand named of is in the graph a call has built.
ConjEmitted(of) ==
  \E k \in 1..Len(mm_out.nodes) : mm_out.nodes[k] = MatNode("Conj", of, FALSE, FALSE)

\* C26: a call of matmul that passes the checks on the flags is dispatched
\* to the batch primitive exactly when no sparse flag is set and the rank
\* of each operand is unknown or greater than 2.  When it returns, the
\* matrices the primitive multiplies are the operands transformed as the
\* caller asked (unchanged, transposed, conjugate-transposed).  On the
\* batch path a request to transpose sets the adj flag of the primitive,
\* after a Conj of a complex operand; on the other paths a request for the
\* adjoint sets the transpose flag, after a Conj of a complex operand.
C26_TransformationsAgree ==
  (Done /\ mm_out.raised # "ValueError") =>
    /\ (mm_out.primitive = "BatchMatMul") <=>
         (/\ ~mm_flags.a_is_sparse /\ ~mm_flags.b_is_sparse
          /\ (mm_a.static = "none" \/ Len(mm_a.shape) > 2)
          /\ (mm_b.static = "none" \/ Len(mm_b.shape) > 2))
    /\ mm_out.raised = "" =>
         /\ mm_out.x = Requested(mm_a, mm_flags.transpose_a, mm_flags.adjoint_a)
         /\ mm_out.y = Requested(mm_b, mm_flags.transpose_b, mm_flags.adjoint_b)
         /\ mm_out.value = BatchProduct(mm_out.x, mm_out.y)
         /\ PrimitiveNode.op = mm_out.primitive
         /\ PrimitiveNode.fx = (mm_flags.transpose_a \/ mm_flags.adjoint_a)
         /\ PrimitiveNode.fy = (mm_flags.transpose_b \/ mm_flags.adjoint_b)
         /\ ConjEmitted("a") <=>
              (/\ mm_a.dtype = complex64
               /\ IF mm_out.primitive = "BatchMatMul"
                  THEN mm_flags.transpose_a ELSE mm_flags.adjoint_a)
         /\ ConjEmitted("b") <=>
              (/\ mm_b.dtype = complex64
               /\ IF mm_out.primitive = "BatchMatMul"
                  THEN mm_flags.transpose_b ELSE mm_flags.adjoint_b)

\* A product of stacks of complex matrices on the batch path, the left one
\* to be transposed and the right one to be conjugate-transposed.
C26_Witness ==
  /\ Done /\ mm_out.raised = "" /\ mm_out.primitive = "BatchMatMul"
  /\ mm_a.dtype = complex64 /\ mm_a.shape = <<2, 2, 1>> /\ mm_b.shape = <<2, 2, 2>>
  /\ mm_flags.transpose_a /\ mm_flags.adjoint_b
  /\ mm_out.x.shape = <<2, 1, 2>>
  /\ ConjEmitted("a") /\ ~ConjEmitted("b")

\* A product of complex matrices on the other path, the left one to be
\* conjugate-transposed.
C26_WitnessMatMul ==
  /\ Done /\ mm_out.raised = "" /\ mm_out.primitive = "MatMul"
  /\ mm_a.dtype = complex64 /\ mm_a.shape = <<2, 1>> /\ mm_b.shape = <<2, 2>>
  /\ mm_flags.adjoint_a /\ mm_flags.transpose_b /\ mm_flags.a_is_sparse
  /\ ConjEmitted("a") /\ ~ConjEmitted("b")

----------------------------------------------------------------------------
(* cast on a Tensor or a SparseTensor that already has the target type.    *)

\* C23 (as claimed): cast of a tensor, Tensor or SparseTensor, that has the
\* target type returns that tensor and adds no node; cast to another type
\* returns a tensor of the target type through one Cast node.  A second
\* cast of the result to the same type returns the result itself and adds
\* no node, and saturate_cast of a Tensor to its own type returns it with
\* no Maximum, no Minimum and no Cast node.
C23_CastKeepsInput ==
  /\ pc = "cast" =>
       IF DTypeOf(sat_value) = sat_dtype
       THEN sat_out.value = sat_value /\ sat_out.nodes = <<>>
       ELSE /\ DTypeOf(sat_out.value) = sat_dtype
            /\ sat_out.nodes =
                 <<Node("Cast", DTypeOf(sat_value), <<>>, sat_dtype)>>
  /\ pc = "cast_twice" =>
       /\ sat_out.second.raised = ""
       /\ sat_out.second.value = sat_out.first.value
       /\ sat_out.second.nodes = <<>>
  /\ (Done /\ ~IsSparseTensor(sat_value) /\ sat_value.dtype = sat_dtype) =>
       (sat_out.raised = "" /\ sat_out.value = sat_value /\ sat_out.nodes = <<>>)

\* y is a SparseTensor built from x: another object with the indices and
\* the dense_shape of x.
RebuiltFrom(y, x) ==
  /\ IsSparseTensor(y)
  /\ y.obj # x.obj
  /\ y.indices = x.indices
  /\ y.dense_shape = x.dense_shape

\* C23 (amended): cast of a Tensor that has the target type returns that
\* tensor and adds no node, cast to another type returns a tensor of the
\* target type through one Cast node.  cast of a SparseTensor always returns
\* a new SparseTensor with the indices and the dense_shape of the input;
\* its values are the values tensor of the input itself, with no node, when
\* they have the target type, and the output of one Cast node otherwise.  A
\* second cast to the same type adds no node and returns the same Tensor,
\* or one more new SparseTensor with the same values.  saturate_cast of a
\* Tensor to its own type returns it and adds no node.
C23_CastKeepsTensor ==
  /\ pc = "cast" =>
       /\ sat_out.raised = ""
       /\ IF IsSparseTensor(sat_value)
          THEN /\ RebuiltFrom(sat_out.value, sat_value)
               /\ IF sat_value.values.dtype = sat_dtype
                  THEN /\ sat_out.value.values = sat_value.values
                       /\ sat_out.nodes = <<>>
                  ELSE /\ sat_out.value.values.dtype = sat_dtype
                       /\ sat_out.nodes =
                            <<Node("Cast", sat_value.values.dtype, <<>>,
                                   sat_dtype)>>
          ELSE IF sat_value.dtype = sat_dtype
               THEN sat_out.value = sat_value /\ sat_out.nodes = <<>>
               ELSE /\ sat_out.value.dtype = sat_dtype
                    /\ sat_out.nodes =
                         <<Node("Cast", sat_value.dtype, <<>>, sat_dtype)>>
  /\ pc = "cast_twice" =>
       /\ sat_out.second.raised = ""
       /\ sat_out.second.nodes = <<>>
       /\ IF IsSparseTensor(sat_value)
          THEN /\ RebuiltFrom(sat_out.second.value, sat_out.first.value)
               /\ sat_out.second.value.values = sat_out.first.value.values
          ELSE sat_out.second.value = sat_out.first.value
  /\ (Done /\ ~IsSparseTensor(sat_value) /\ sat_value.dtype = sat_dtype) =>
       (sat_out.raised = "" /\ sat_out.value = sat_value /\ sat_out.nodes = <<>>)

\* C23 witness: a SparseTensor of int16 values cast to int16 and cast again:
\* no node, the same values tensor, and a new SparseTensor each time.
C23_WitnessSparse ==
  /\ pc = "cast_twice"
  /\ IsSparseTensor(sat_value)
  /\ sat_value.values.dtype = int16 /\ sat_dtype = int16
  /\ sat_out.first.nodes = <<>> /\ sat_out.second.nodes = <<>>
  /\ sat_out.first.value.values = sat_value.values
  /\ sat_out.first.value.obj = 1 /\ sat_out.second.value.obj = 2

\* A cast from int32 to int8 of a value that does not fit, cast again.
C23_Witness ==
  /\ pc = "cast_twice" /\ ~IsSparseTensor(sat_value)
  /\ sat_value.dtype = int32 /\ sat_dtype = int8
  /\ ~Representable(sat_value.v, int8)
  /\ Len(sat_out.first.nodes) = 1 /\ sat_out.second.nodes = <<>>

\* saturate_cast of an int16 tensor to int16.
C23_WitnessSaturate ==
  /\ Done /\ ~IsSparseTensor(sat_value) /\ sat_value.dtype = int16 /\ sat_dtype = int16
  /\ sat_out.value = sat_value /\ sat_out.nodes = <<>>

----------------------------------------------------------------------------
(* div: division with the semantics of Python 2.                           *)

\* _div_python2(x, y): y is converted to the type of x; RealDiv on floating
\* and complex operands, FloorDiv on the others.
div_python2(x, y) ==
  LET cy == convert_tensor_as(y, x.dtype)
  IN IF ~cy.ok THEN DivResult("ValueError", x, y, None, <<>>)
     ELSE IF x.dtype # cy.t.dtype THEN DivResult("TypeMismatch", x, y, None, <<>>)
     ELSE IF x.dtype.kind \in {"float", "complex"}
     THEN DivResult("", x, cy.t, x.dtype, <<Node("RealDiv", x.dtype, <<>>, x.dtype)>>)
     ELSE DivResult("", x, cy.t, x.dtype, <<Node("FloorDiv", x.dtype, <<>>, x.dtype)>>)

\* div(x, y)
div(x, y) == div_python2(x, y)

\* The call div(div_x, div_y).
Div ==
  /\ pc = "call"
  /\ div_out' = [form |-> "div", r |-> div(div_x, div_y)]
  /\ pc' = "done"
  /\ UNCHANGED <<div_x, div_y>>
  /\ UNCHANGED <<tensordot_vars, saturate_vars, reduction_vars, matmul_vars>>
  /\ UNCHANGED shape_vars
  /\ UNCHANGED accumulate_vars

DivNext == Div

\* div on the operands of the true division.
DivSpec == TruedivInit /\ [][DivNext]_vars

\* A tensor of a real numeric type.
RealNumeric(t) == t.dtype.kind \in {"int", "float"}

\* C24: div of two real numeric tensors returns a floating result through
\* a real division when one of them is floating, and an integer result
\* through a flooring division when both are integers; no such call fails.
C24_Python2Division ==
  (Done /\ RealNumeric(div_x) /\ RealNumeric(div_y)) =>
    /\ div_out.r.raised = ""
    /\ IF div_x.dtype.kind = "float" \/ div_y.dtype.kind = "float"
       THEN /\ div_out.r.dtype.kind = "float"
            /\ div_out.r.nodes[Len(div_out.r.nodes)].op = "RealDiv"
       ELSE /\ div_out.r.dtype.kind = "int"
            /\ div_out.r.nodes[Len(div_out.r.nodes)].op = "FloorDiv"

\* The part of C24 that holds: on two tensors of the same real numeric type
\* div returns a result of that type, through a real division when the type
\* is floating and through a flooring division when it is an integer type.
C24_SameTypePart ==
  (Done /\ RealNumeric(div_x) /\ div_x.dtype = div_y.dtype) =>
    /\ div_out.r.raised = ""
    /\ div_out.r.dtype = div_x.dtype
    /\ div_out.r.nodes =
         <<Node(IF div_x.dtype.kind = "float" THEN "RealDiv" ELSE "FloorDiv",
                div_x.dtype, <<>>, div_x.dtype)>>

----------------------------------------------------------------------------
(* The plan of _tensordot_reshape.                                         *)

\* The plan p for the operand t and the axis list ax is the one described:
\* negative axes shifted by the rank, free axes the other positions in
\* increasing order, the transposition free-then-contract (contract-then-
\* free when flipped), a permutation of 0..r-1, the target of two dimensions
\* made of the products of the free and of the contracted sizes, whose
\* product is the number of elements of t.
PlanAsDescribed(t, ax, flipped, p) ==
  LET r == Len(t.shape)
      contract == Positions(ax, r)
      free == FreePositions(r, contract)
      prod_free == Prod(DimsAt(t, free))
      prod_contract == Prod(DimsAt(t, contract))
  IN /\ p.raised = "" /\ ~p.deferred
     /\ p.axes = contract
     /\ p.free = free
     /\ p.perm = IF flipped THEN contract \o free ELSE free \o contract
     /\ IsPerm(p.perm, r)
     /\ p.new_shape = IF flipped THEN <<prod_contract, prod_free>>
                      ELSE <<prod_free, prod_contract>>
     /\ p.new_shape[1] * p.new_shape[2] = Prod(t.shape)
     /\ p.mat.shape = p.new_shape
     /\ Len(p.mat.vals) = Len(t.vals)

\* C25: for operands of every rank and every list of valid axes without
\* repetition, given as a list or as a tensor, _tensordot_reshape plans
\* what is described above, for the left operand and for the flipped right
\* one.
C25_ReshapePlan ==
  (Done /\ ValidRowsCase) =>
    \A flipped \in BOOLEAN :
      /\ PlanAsDescribed(a, axes.rows[1], flipped,
           tensordot_reshape(a, AxisSpec(axes.kind = "list", axes.rows[1]), flipped))
      /\ PlanAsDescribed(b, axes.rows[2], flipped,
           tensordot_reshape(b, AxisSpec(axes.kind = "list", axes.rows[2]), flipped))

\* Operands of shapes [2, 1, 2] and [2, 2] with fully defined shapes,
\* contracted over the axes -1 and 0 of the left and 1 and 0 of the right.
C25_Witness ==
  /\ Done /\ ValidRowsCase /\ BothFull
  /\ axes = ListAxes(<<(<<-1, 0>>), (<<1, 0>>)>>)
  /\ a.shape = <<2, 1, 2>> /\ b.shape = <<2, 2>>
  /\ tensordot_reshape(a, AxisSpec(TRUE, axes.rows[1]), FALSE).perm = <<1, 2, 0>>
  /\ tensordot_reshape(b, AxisSpec(TRUE, axes.rows[2]), TRUE).new_shape = <<4, 1>>

----------------------------------------------------------------------------
(* The shape reduce_logsumexp returns.                                     *)

\* The axes a call reduces over: all of them when none is given, the ones
\* given through axis or through reduction_indices otherwise.
ReducedAxes ==
  IF NeitherGiven THEN AllAxes(Len(red_x.shape)) ELSE GivenArg.v

\* C27: reduce_logsumexp with keep_dims false, called with valid axes through
\* axis or through reduction_indices or with no axes at all, returns a
\* tensor whose shape is the shape of the input without the reduced axes;
\* the other dimensions stay, also those of size 1.
C27_LogsumexpShape ==
  (/\ Done /\ red_op = "reduce_logsumexp" /\ ~red_keep /\ ~BothGiven
   /\ DimsOK(ReducedAxes, Len(red_x.shape))) =>
    /\ red_out.raised = "" /\ ~red_out.deferred
    /\ red_out.shape =
         Gather(red_x.shape,
                Ascending((0..(Len(red_x.shape) - 1))
                            \ DimSet(ReducedAxes, Len(red_x.shape))))

\* The part of C27 that holds: the axes given through axis as an int or as
\* a list that is not empty, or no axes at all.
C27_ThroughAxisPart ==
  (red_alias = NoneArg /\ red_axis # ListArg(<<>>)) => C27_LogsumexpShape

----------------------------------------------------------------------------
(* reduced_shape: the shape of a reduction that keeps the reduced          *)
(* dimensions.                                                             *)

\* A tensor of rank 1 of integers: its type and its entries.
IntVector(dtype, v) == [dtype |-> dtype, v |-> v]

\* to_int32(x) is cast(x, int32): an int32 tensor is returned as it is,
\* another one is cast; the shapes and axes of the model lie within int32,
\* where the cast keeps every value.
to_int32(x) == IF x.dtype = int32 THEN x ELSE IntVector(int32, x.v)

\* dynamic_stitch in which the first value written at an index stays.
dynamic_stitchFirstWins(indices, data) ==
  LET idx == indices[1] \o indices[2]
      dat == data[1] \o data[2]
      n == IF idx = <<>> THEN 0
           ELSE 1 + CHOOSE m \in Elems(idx) : \A i \in Elems(idx) : i <= m
      first(i) == CHOOSE k \in 1..Len(idx) :
                    idx[k] = i /\ \A l \in 1..Len(idx) : idx[l] = i => l >= k
  IN [i \in 1..n |-> IF (i - 1) \in Elems(idx) THEN dat[first(i - 1)] ELSE 0]

\* gen_data_flow_ops.dynamic_stitch on two pairs of indices and data:
\* merged[indices[m][i]] = data[m][i], a later value replacing an earlier
\* one at the same index; the result has max(indices) + 1 entries.
dynamic_stitch(indices, data) ==
  LET idx == indices[1] \o indices[2]
      dat == data[1] \o data[2]
      n == IF idx = <<>> THEN 0
           ELSE 1 + CHOOSE m \in Elems(idx) : \A i \in Elems(idx) : i <= m
      last(i) == CHOOSE k \in 1..Len(idx) :
                   idx[k] = i /\ \A l \in 1..Len(idx) : idx[l] = i => l <= k
  IN [i \in 1..n |-> IF (i - 1) \in Elems(idx) THEN dat[last(i - 1)] ELSE 0]

\* array_ops.fill(dims, value) for a vector.
Fill(n, value) == [k \in 1..n |-> value]

\* reduced_shape(input_shape, axes)
reduced_shape(input_shape, axes_in) ==
  LET shape32 == to_int32(input_shape)
      axes32 == to_int32(axes_in)
      input_rank == Len(shape32.v)
      axes_mod == [k \in 1..Len(axes32.v) |-> (axes32.v[k] + input_rank) % input_rank]
      axes_shape == Len(axes_mod)
  IN IntVector(int32,
               dynamic_stitch(<<XRange(input_rank), axes_mod>>,
                              <<shape32.v, Fill(axes_shape, 1)>>))

\* The shapes given to reduced_shape: of rank 1 to MaxRank.
InputShapes ==
  {IntVector(d, s) : d \in {int32, int64},
                     s \in SeqsUpTo(1..MaxDim, MaxRank) \ {<<>>}}

\* The axes given to reduced_shape: lists of up to MaxAxes axes, with
\* negative and repeated entries.
InputAxes ==
  {IntVector(d, l) : d \in {int32, int64},
                     l \in SeqsUpTo((0 - MaxRank)..(MaxRank - 1), MaxAxes)}

ShapeInit ==
  /\ rs_shape \in InputShapes
  /\ rs_axes \in InputAxes
  /\ rs_out = IntVector(int32, <<>>)
  /\ pc = "call"
  /\ a = Unused /\ b = Unused /\ axes = Unused /\ outcome = Unused
  /\ sat_value = Unused /\ sat_dtype = Unused /\ sat_out = Unused
  /\ div_x = Unused /\ div_y = Unused /\ div_out = Unused
  /\ red_op = Unused /\ red_x = Unused /\ red_axis = Unused
  /\ red_alias = Unused /\ red_keep = Unused /\ red_out = Unused
  /\ mm_a = Unused /\ mm_b = Unused /\ mm_flags = Unused /\ mm_out = Unused
  /\ acc_inputs = Unused /\ acc_out = Unused /\ acc_val = Unused /\ acc_local = Unused /\ acc_var = Unused /\ acc_lock = Unused /\ acc_ret = Unused

\* The call reduced_shape(rs_shape, rs_axes).
ReducedShapeCall ==
  /\ pc = "call"
  /\ rs_out' = reduced_shape(rs_shape, rs_axes)
  /\ pc' = "done"
  /\ UNCHANGED <<rs_shape, rs_axes>>
  /\ UNCHANGED <<tensordot_vars, saturate_vars, truediv_vars, reduction_vars, matmul_vars>>
  /\ UNCHANGED accumulate_vars

ShapeNext == ReducedShapeCall

ShapeSpec == ShapeInit /\ [][ShapeNext]_vars

\* The positions the axes name in a shape of rank r: (axis + r) mod r.
NamedPositions(v, r) == {(v[k] + r) % r : k \in 1..Len(v)}

\* C28: reduced_shape returns a sequence as long as the input shape, with 1
\* at every position named by the axes and the size of the input at every
\* other position, for shapes of rank >= 1 and every list of axes; for axes
\* within -rank..rank-1 that is the shape a reduction with keep_dims
\* returns.
C28_KeepDimsShape ==
  Done =>
    LET r == Len(rs_shape.v)
    IN /\ Len(rs_out.v) = r
       /\ \A k \in 1..r :
            rs_out.v[k] = IF (k - 1) \in NamedPositions(rs_axes.v, r) THEN 1
                          ELSE rs_shape.v[k]
       /\ DimsOK(rs_axes.v, r) => rs_out.v = ReducedShape(rs_shape.v, rs_axes.v, TRUE)

\* The shape [2, 2, 2] with the axes [-1, -1]: the last size becomes 1.
C28_Witness ==
  /\ Done
  /\ rs_shape.v = <<2, 2, 2>> /\ rs_axes.v = <<-1, -1>>
  /\ rs_out.v = <<2, 2, 1>>

----------------------------------------------------------------------------
(* accumulate_n: the graph it builds around a temporary variable, and the  *)
(* run of that graph, in which the updates of the variable interleave.     *)

\* The largest number of inputs.
MaxInputs == 3

\* An input of accumulate_n: a tensor of rank 1 with its type and elements.
AccTensor(dtype, v) == [dtype |-> dtype, v |-> v]

\* The name of a node of the graph.
NodeName(op, i) == <<op, i>>

\* A node of the graph: its name, its operation, the nodes whose outputs it
\* reads, the nodes it must run after, and its use_locking attribute.
GraphNode(name, op, inputs, control, use_locking) ==
  [name |-> name, op |-> op, inputs |-> inputs, control |-> control,
   use_locking |-> use_locking]

\* The node of an input tensor; it exists before accumulate_n is called.
InputNode(i) == NodeName("input", i)

\* What accumulate_n returns or raises: the exception, the node whose output
\* is the tensor returned, and the nodes added to the graph.
AccResult(raised, output, graph) ==
  [raised |-> raised, output |-> output, graph |-> graph]

\* An update that does not take the lock of the variable.
UseLockingOff == FALSE

\* use_locking=True of the assign_add nodes.
UseLocking == TRUE

\* accumulate_n(inputs)
accumulate_n(inputs) ==
  LET n == Len(inputs)
      var == NodeName("var", 0)
      merge == NodeName("merge", 0)
      zeros == NodeName("zeros", 0)
      ref == NodeName("assign", 0)
      update_ops == {NodeName("assign_add", i) : i \in 1..n}
  IN IF n = 0 THEN AccResult("ValueError", NodeName("", 0), {})
     ELSE IF \E i \in 1..n : inputs[i].dtype # inputs[1].dtype
     THEN AccResult("ValueError", NodeName("", 0), {})
     ELSE IF \E i \in 1..n : Len(inputs[i].v) # Len(inputs[1].v)
     THEN AccResult("ValueError", NodeName("", 0), {})
     ELSE IF n = 1 THEN AccResult("", InputNode(1), {})
     ELSE AccResult("", NodeName("destroy", 0),
            {GraphNode(var, "TemporaryVariable", {}, {}, FALSE),
             GraphNode(merge, "Merge", {InputNode(i) : i \in 1..n}, {}, FALSE),
             GraphNode(zeros, "ZerosLike", {merge}, {}, FALSE),
             GraphNode(ref, "Assign", {var, zeros}, {}, FALSE),
             GraphNode(NodeName("destroy", 0), "DestroyTemporaryVariable",
                       {ref}, update_ops, FALSE)}
            \cup {GraphNode(NodeName("assign_add", i), "AssignAdd",
                            {ref, InputNode(i)}, {}, UseLocking) : i \in 1..n})

\* The tensors the inputs are drawn from.
AccTensors ==
  {AccTensor(d, v) : d \in {int32, float32}, v \in {<<1>>, <<2>>, <<1, 2>>}}

\* The temporary variable: whether it exists, and its value.
AccVar(exists, v) == [exists |-> exists, v |-> v]

\* What the run has returned.
AccReturn(returned, v) == [returned |-> returned, v |-> v]

AccumulateInit ==
  /\ acc_inputs \in SeqsUpTo(AccTensors, MaxInputs)
  /\ acc_out = AccResult("", NodeName("", 0), {})
  /\ acc_val = <<>>
  /\ acc_local = <<>>
  /\ acc_var = AccVar(FALSE, <<>>)
  /\ acc_lock = 0
  /\ acc_ret = AccReturn(FALSE, <<>>)
  /\ pc = "call"
  /\ a = Unused /\ b = Unused /\ axes = Unused /\ outcome = Unused
  /\ sat_value = Unused /\ sat_dtype = Unused /\ sat_out = Unused
  /\ div_x = Unused /\ div_y = Unused /\ div_out = Unused
  /\ red_op = Unused /\ red_x = Unused /\ red_axis = Unused
  /\ red_alias = Unused /\ red_keep = Unused /\ red_out = Unused
  /\ mm_a = Unused /\ mm_b = Unused /\ mm_flags = Unused /\ mm_out = Unused
  /\ rs_shape = Unused /\ rs_axes = Unused /\ rs_out = Unused

\* The variables of the other components.
OutsideAccumulate ==
  <<tensordot_vars, saturate_vars, truediv_vars, reduction_vars, matmul_vars, shape_vars>>

\* The call accumulate_n(acc_inputs): the graph is built, or the call fails.
AccumulateN ==
  /\ pc = "call"
  /\ acc_out' = accumulate_n(acc_inputs)
  /\ pc' = IF acc_out'.raised = "" THEN "built" ELSE "done"
  /\ UNCHANGED <<acc_inputs, acc_val, acc_local, acc_var, acc_lock, acc_ret>>
  /\ UNCHANGED OutsideAccumulate

\* The nodes that have run.
AccDone == DOMAIN acc_val

\* A node of the graph can run: it has not run, every node it must run
\* after has, and the nodes it reads have (one of them for a Merge).
Ready(node) ==
  /\ node.name \notin AccDone
  /\ node.control \subseteq AccDone
  /\ IF node.op = "Merge" THEN node.inputs \cap AccDone # {}
     ELSE node.inputs \subseteq AccDone

\* The node of an operation in the graph built.
NodesOf(op) == {node \in acc_out.graph : node.op = op}

\* A node has run with the output v; the run returns when it was the node
\* of the tensor accumulate_n returned.
Completes(name, v) ==
  /\ acc_val' = (name :> v) @@ acc_val
  /\ acc_ret' = IF name = acc_out.output THEN AccReturn(TRUE, v) ELSE acc_ret
  /\ pc' = IF name = acc_out.output THEN "done" ELSE pc

\* Input i gets its value.
Produce(i) ==
  /\ pc = "built"
  /\ i \in 1..Len(acc_inputs)
  /\ InputNode(i) \notin AccDone
  /\ Completes(InputNode(i), acc_inputs[i].v)
  /\ UNCHANGED <<acc_inputs, acc_out, acc_local, acc_var, acc_lock>>
  /\ UNCHANGED OutsideAccumulate

\* The temporary variable is created, with shape [0].
RunTemporaryVariable ==
  /\ pc = "built"
  /\ \E node \in NodesOf("TemporaryVariable") :
       /\ Ready(node)
       /\ acc_var' = AccVar(TRUE, <<>>)
       /\ Completes(node.name, <<>>)
  /\ UNCHANGED <<acc_inputs, acc_out, acc_local, acc_lock>>
  /\ UNCHANGED OutsideAccumulate

\* Merge forwards an input that has its value.
RunMerge ==
  /\ pc = "built"
  /\ \E node \in NodesOf("Merge") :
       /\ Ready(node)
       /\ \E d \in node.inputs \cap AccDone : Completes(node.name, acc_val[d])
  /\ UNCHANGED <<acc_inputs, acc_out, acc_local, acc_var, acc_lock>>
  /\ UNCHANGED OutsideAccumulate

\* zeros_like of the merged input.
RunZerosLike ==
  /\ pc = "built"
  /\ \E node \in NodesOf("ZerosLike") :
       /\ Ready(node)
       /\ \E d \in node.inputs :
            Completes(node.name, [k \in 1..Len(acc_val[d]) |-> 0])
  /\ UNCHANGED <<acc_inputs, acc_out, acc_local, acc_var, acc_lock>>
  /\ UNCHANGED OutsideAccumulate

\* assign(var, zeros, validate_shape=False): the variable takes the value
\* and the shape of zeros.
RunAssign ==
  /\ pc = "built"
  /\ \E node \in NodesOf("Assign") :
       /\ Ready(node)
       /\ acc_var' = AccVar(TRUE, acc_val[NodeName("zeros", 0)])
       /\ Completes(node.name, <<>>)
  /\ UNCHANGED <<acc_inputs, acc_out, acc_local, acc_lock>>
  /\ UNCHANGED OutsideAccumulate

\* The update i starts: it takes the lock of the variable when it uses
\* locking, and reads the variable.
AssignAddBegin(i) ==
  /\ pc = "built"
  /\ i \notin DOMAIN acc_local
  /\ \E node \in NodesOf("AssignAdd") :
       /\ node.name = NodeName("assign_add", i)
       /\ Ready(node)
       /\ node.use_locking => acc_lock = 0
       /\ acc_lock' = IF node.use_locking THEN i ELSE acc_lock
       /\ acc_local' = (i :> acc_var.v) @@ acc_local
  /\ UNCHANGED <<acc_inputs, acc_out, acc_val, acc_var, acc_ret, pc>>
  /\ UNCHANGED OutsideAccumulate

\* The element-wise sum of two tensors of one shape.
VAdd(u, w) == [k \in 1..Len(w) |-> (IF k <= Len(u) THEN u[k] ELSE 0) + w[k]]

\* The update i ends: it writes what it read plus its input, and gives the
\* lock back.
AssignAddEnd(i) ==
  /\ pc = "built"
  /\ i \in DOMAIN acc_local
  /\ NodeName("assign_add", i) \notin AccDone
  /\ acc_var' = AccVar(acc_var.exists, VAdd(acc_local[i], acc_inputs[i].v))
  /\ acc_lock' = IF acc_lock = i THEN 0 ELSE acc_lock
  /\ Completes(NodeName("assign_add", i), <<>>)
  /\ UNCHANGED <<acc_inputs, acc_out, acc_local>>
  /\ UNCHANGED OutsideAccumulate

\* destroy_temporary_variable: the variable is gone and its value is the
\* output.
RunDestroy ==
  /\ pc = "built"
  /\ \E node \in NodesOf("DestroyTemporaryVariable") :
       /\ Ready(node)
       /\ acc_var' = AccVar(FALSE, <<>>)
       /\ Completes(node.name, acc_var.v)
  /\ UNCHANGED <<acc_inputs, acc_out, acc_local, acc_lock>>
  /\ UNCHANGED OutsideAccumulate

AccumulateNext ==
  \/ AccumulateN
  \/ \E i \in 1..MaxInputs : Produce(i)
  \/ RunTemporaryVariable
  \/ RunMerge
  \/ RunZerosLike
  \/ RunAssign
  \/ \E i \in 1..MaxInputs : AssignAddBegin(i)
  \/ \E i \in 1..MaxInputs : AssignAddEnd(i)
  \/ RunDestroy

AccumulateSpec == AccumulateInit /\ [][AccumulateNext]_vars

\* The update i has started.
UpdateStarted(i) ==
  i \in DOMAIN acc_local \/ NodeName("assign_add", i) \in AccDone

\* The update i is between its read and its write.
UpdateRunning(i) ==
  i \in DOMAIN acc_local /\ NodeName("assign_add", i) \notin AccDone

RECURSIVE SumOfInputs(_, _)
\* The element-wise sum of the first n inputs.
SumOfInputs(inputs, n) ==
  IF n = 1 THEN inputs[1].v
  ELSE VAdd(SumOfInputs(inputs, n - 1), inputs[n].v)

\* C29: in a run of the graph accumulate_n builds for two or more inputs,
\* no update starts before the variable holds zeros, the graph has one
\* update per input, under the lock (never two between read and write),
\* the variable is destroyed only after every update has ended, and the
\* value returned is the element-wise sum of the inputs whatever the order
\* of the updates was.  For one input the input itself is returned and no
\* node is built.
C29_AccumulateSums ==
  (pc \in {"built", "done"} /\ acc_out.raised = "") =>
    LET n == Len(acc_inputs)
    IN IF n = 1
       THEN /\ acc_out.output = InputNode(1)
            /\ acc_out.graph = {}
            /\ ~acc_var.exists
            /\ acc_ret.returned => acc_ret.v = acc_inputs[1].v
       ELSE /\ \A i \in 1..n :
                 /\ UpdateStarted(i) => NodeName("assign", 0) \in AccDone
                 /\ Cardinality({node \in NodesOf("AssignAdd") :
                                   InputNode(i) \in node.inputs}) = 1
            /\ Cardinality(NodesOf("AssignAdd")) = n
            /\ \A node \in NodesOf("AssignAdd") : node.use_locking
            /\ Cardinality({i \in 1..n : UpdateRunning(i)}) <= 1
            /\ (NodeName("assign", 0) \in AccDone /\ ~acc_ret.returned) =>
                 /\ acc_var.exists
                 /\ \A i \in 1..n : UpdateRunning(i) => acc_lock = i
            /\ NodeName("destroy", 0) \in AccDone =>
                 \A i \in 1..n : NodeName("assign_add", i) \in AccDone
            /\ acc_ret.returned <=> NodeName("destroy", 0) \in AccDone
            /\ acc_ret.returned =>
                 (acc_ret.v = SumOfInputs(acc_inputs, n) /\ ~acc_var.exists)

\* Three inputs, the second added before the first, the third between its
\* read and its write.
C29_Witness ==
  /\ pc = "built" /\ Len(acc_inputs) = 3
  /\ NodeName("assign_add", 2) \in AccDone
  /\ ~UpdateStarted(1)
  /\ UpdateRunning(3)
  /\ acc_var.v = acc_inputs[2].v

\* Three inputs [1, 2], [1, 2], [1, 2] added: [3, 6] is returned.
C29_WitnessReturned ==
  /\ pc = "done" /\ Len(acc_inputs) = 3
  /\ acc_inputs[1].v = <<1, 2>>
  /\ acc_ret.returned /\ acc_ret.v = <<3, 6>>

\* One input: it is returned.
C29_WitnessSingle ==
  /\ pc = "done" /\ Len(acc_inputs) = 1
  /\ acc_ret.returned /\ acc_ret.v = acc_inputs[1].v /\ acc_out.graph = {}

----------------------------------------------------------------------------
(* The constants of the clamps of saturate_cast.                           *)

\* The constants of the nodes of an operation in the graph saturate_cast
\* has built.
ClampConstants(op) ==
  {sat_out.nodes[i].consts[1] : i \in {k \in 1..Len(sat_out.nodes) : sat_out.nodes[k].op = op}}

\* v lies between the least and the greatest value of the type d.
WithinRange(v, d) == ~Less(v, DMin(d)) /\ ~Less(DMax(d), v)

\* C30: for every pair of integer types, building the clamps never fails,
\* and the constant of every clamp built is the bound of the target type
\* (its least value for Maximum, its greatest for Minimum) held in the
\* source type without change, a value within the range of the source
\* type.
C30_ClampBoundsFit ==
  Done =>
    /\ sat_out.raised = ""
    /\ \A c \in ClampConstants("Maximum") :
         /\ c.dtype = sat_value.dtype
         /\ c.v = DMin(sat_dtype)
         /\ WithinRange(c.v, sat_value.dtype)
    /\ \A c \in ClampConstants("Minimum") :
         /\ c.dtype = sat_value.dtype
         /\ c.v = DMax(sat_dtype)
         /\ WithinRange(c.v, sat_value.dtype)
    /\ Less(DMin(sat_value.dtype), DMin(sat_dtype)) => ClampConstants("Maximum") # {}
    /\ Less(DMax(sat_dtype), DMax(sat_value.dtype)) => ClampConstants("Minimum") # {}

\* From int64 to int16 both clamps are built, with the constants -32768 and
\* 32767 as int64.
C30_Witness ==
  /\ Done
  /\ sat_value.dtype = int64 /\ sat_dtype = int16
  /\ ClampConstants("Maximum") = {Scalar(int64, DMin(int16))}
  /\ ClampConstants("Minimum") = {Scalar(int64, DMax(int16))}
  /\ Less(DMax(int16), sat_value.v)

====
